---- MODULE Spec2Model ----
(***************************************************************************)
(* Keirin race analysis: rider scoring (calculate_ai_score), race          *)
(* classification and ticket generation (generate_betting_strategy) and    *)
(* settlement of stored recommendations (analyze_prediction_history).      *)
(*                                                                         *)
(* Numbers: scores, ratings, metres and degrees are integers in TENTHS     *)
(* (80.0 is 800, +2.5 is 25).  Money is in currency units.                 *)
(* A data frame is a record [cols, place, rows]: cols is the set of        *)
(* columns that exist, place the value of the venue column, rows the       *)
(* sequence of rider rows in frame order.                                  *)
(***************************************************************************)
EXTENDS Integers, Sequences, FiniteSets, TLC

VARIABLES
    df,        \* the rider table of the race being analysed
    pc,        \* position in the per-race pipeline: raw, classic, scored, done,
               \* or score_raised / strategy_raised where an exception left it
    raised,    \* "none", or the exception that left the pipeline
    strategy,  \* the dictionary generate_betting_strategy returned
    ai_match,  \* the long-shot override list (ai_match_cars) of the call
    locals,    \* the locals race_type and rec_tickets of the call when it left
    history_data,  \* the stored recommendations handed to settlement
    race_result,   \* the result store: race id -> result rows and payouts
    returned,      \* what analyze_prediction_history returned, or raised
    shown,         \* what the history tab shows of it
    hpc,           \* position of the history tab: stored, analyzed, shown
    runs,          \* how many times the history tab has run the analysis
    chunk_fails    \* the chunks (by position) whose query the store fails

pipeline_vars == <<df, pc, raised, strategy, ai_match, locals>>

settlement_vars == <<history_data, race_result, returned, shown, hpc, runs, chunk_fails>>

vars == <<pipeline_vars, settlement_vars>>

----------------------------------------------------------------------------
(* Generic helpers                                                         *)

Max2(a, b) == IF a >= b THEN a ELSE b

Abs(x) == IF x < 0 THEN 0 - x ELSE x

RECURSIVE SeqSum(_)
SeqSum(s) == IF s = <<>> THEN 0 ELSE Head(s) + SeqSum(Tail(s))

RECURSIVE SeqMax(_)
SeqMax(s) == IF Len(s) = 1 THEN s[1] ELSE Max2(s[1], SeqMax(Tail(s)))

\* Descending sort that keeps frame order among equal keys (the order the
\* sorts used here produce on tables of this size): key[i] is the key of
\* s[i], and the element at index i lands at position Rank(i).
SortDesc(s, key) ==
    LET n == Len(s)
        Rank(i) == Cardinality({j \in 1..n : key[j] > key[i]})
                   + Cardinality({j \in 1..(i - 1) : key[j] = key[i]}) + 1
    IN [p \in 1..n |-> s[CHOOSE i \in 1..n : Rank(i) = p]]

----------------------------------------------------------------------------
(* Venue table                                                             *)

\* (straight, cant, lap length) per venue, tenths of a metre / of a degree.
VELODROME_SPECS ==
    [ Seibuen   |-> <<476, 294, 4000>>,
      Shizuoka  |-> <<564, 307, 4000>>,
      Toyohashi |-> <<603, 338, 4000>> ]

DefaultSpecs == <<4000, 300, 4000>>

\* db_utils.VELODROME_SPECS.get(place_name, (400, 30, 400))
BankSpecs(d) ==
    IF "place" \in d.cols /\ d.place \in DOMAIN VELODROME_SPECS
    THEN VELODROME_SPECS[d.place] ELSE DefaultSpecs

PlaceName(d) == IF "place" \in d.cols THEN d.place ELSE ""

----------------------------------------------------------------------------
(* Rider Scoring Engine, classic rules                                     *)

Tag(t, v) == [t |-> t, v |-> v]

\* df.loc[mask, 'ai_score'] += bonus ; df.loc[mask, 'ai_tag'] += tag
Bump(r, bonus, tags) ==
    [r EXCEPT !.ai_score = @ + bonus, !.ai_tag = @ \o tags]

\* mask is the set of frame indices the boolean mask selects.
BumpWhere(rows, mask, bonus, tags) ==
    [i \in DOMAIN rows |->
        IF i \in mask THEN Bump(rows[i], bonus, tags) ELSE rows[i]]

\* df['kyaku'].astype(str).str.contains(one of marks)
KyakuMask(rows, marks) == {i \in DOMAIN rows : rows[i].kyaku \cap marks # {}}

\* df['car'] == car
CarMask(rows, car) == {i \in DOMAIN rows : rows[i].car = car}

\* pd.to_numeric(df['pts'], errors='coerce').fillna(80.0): a rating is <<v>>,
\* or <<>> when the cell is empty or not a number.
DefaultBase == 800

BaseOf(r) == IF r.pts = <<>> THEN DefaultBase ELSE r.pts[1]

ClassicBase(rows) ==
    [i \in DOMAIN rows |->
        [rows[i] EXCEPT !.base_score = BaseOf(rows[i]),
                        !.ai_score = BaseOf(rows[i]),
                        !.ai_tag = <<>>]]

LocalBonus == 30

ClassicLocal(d, rows) ==
    IF "jimoto" \in d.cols
    THEN BumpWhere(rows, {i \in DOMAIN rows : rows[i].jimoto}, LocalBonus, <<Tag("jimoto", LocalBonus)>>)
    ELSE rows

TacticBonus == 20

ClassicTactic(d, rows) ==
    IF "kyaku" \in d.cols
    THEN BumpWhere(BumpWhere(rows, KyakuMask(rows, {"nige"}), TacticBonus, <<>>),
                   KyakuMask(rows, {"makuri"}), TacticBonus, <<>>)
    ELSE rows

ShortStraight == 500
LongStraight == 580
GentleCant == 300
SteepCant == 330
BankBonus == 20

ClassicBankStraight(d, rows, str_m) ==
    IF str_m < ShortStraight /\ "kyaku" \in d.cols
    THEN BumpWhere(rows, KyakuMask(rows, {"nige"}), BankBonus,
                   <<Tag("short_straight_nige", BankBonus)>>)
    ELSE IF ~(str_m < ShortStraight) /\ str_m > LongStraight /\ "kyaku" \in d.cols
    THEN BumpWhere(rows, KyakuMask(rows, {"makuri", "sashi"}), BankBonus,
                   <<Tag("long_straight_makuri_sashi", BankBonus)>>)
    ELSE rows

ClassicBankCant(d, rows, cant_deg) ==
    IF cant_deg < GentleCant /\ "kyaku" \in d.cols
    THEN BumpWhere(rows, KyakuMask(rows, {"nige"}), BankBonus,
                   <<Tag("gentle_cant_nige", BankBonus)>>)
    ELSE IF ~(cant_deg < GentleCant) /\ cant_deg > SteepCant /\ "kyaku" \in d.cols
    THEN BumpWhere(rows, KyakuMask(rows, {"makuri"}), BankBonus,
                   <<Tag("steep_cant_makuri", BankBonus)>>)
    ELSE rows

ClassicBank(d, rows) ==
    IF "place" \in d.cols /\ d.place \in DOMAIN VELODROME_SPECS
    THEN LET specs == VELODROME_SPECS[d.place]
         IN ClassicBankCant(d, ClassicBankStraight(d, rows, specs[1]), specs[2])
    ELSE rows

\* One entry of line_infos per whitespace-separated group of the first row's
\* line cell: its member digits, its length and its leader's base score
\* (0.0 when the leader is no row of the frame).
LeaderScore(rows, leader) ==
    LET hit == SelectSeq(rows, LAMBDA r : r.car = leader)
    IN IF hit = <<>> THEN 0 ELSE hit[1].base_score

LineInfos(rows) ==
    LET groups == SelectSeq(rows[1].line, LAMBDA g : g # <<>>)
        infos == [k \in DOMAIN groups |->
                    [members |-> groups[k], len |-> Len(groups[k]),
                     score |-> LeaderScore(rows, groups[k][1])]]
    IN \* line_infos.sort(key=(len, score), reverse=True)
       SortDesc(infos, [k \in DOMAIN infos |-> infos[k].len * 1000000 + infos[k].score])

ThirdBonusTop == 20
ThirdBonusOther == 10

\* A. the 3rd member of the first-ranked line +2.0, of every other line +1.0
RECURSIVE LineThird(_, _, _)
LineThird(rows, infos, idx) ==
    IF idx > Len(infos) THEN rows
    ELSE LET info == infos[idx]
             bonus == IF idx = 1 THEN ThirdBonusTop ELSE ThirdBonusOther
             next == IF info.len >= 3
                     THEN BumpWhere(rows, CarMask(rows, info.members[3]), bonus,
                                    <<Tag("L3", bonus)>>)
                     ELSE rows
         IN LineThird(next, infos, idx + 1)

VenueAdjStrong == 5
VenueAdjWeak == -10

VenueAdj(place_name) ==
    IF place_name \in {"Seibuen", "Tachikawa", "Tamano", "Toyohashi"} THEN VenueAdjStrong
    ELSE IF place_name \in {"Shizuoka", "Takeo"} THEN VenueAdjWeak
    ELSE 0

Longest4Bonus == 25
Longest3HeadBonus == 15
Longest3ThirdBonus == 5

\* The bonus of the member at position pos_i (from 0) of the unique longest line.
LongestBonus(len, pos_i, venue_adj) ==
    IF len >= 4 THEN Longest4Bonus + venue_adj
    ELSE IF pos_i <= 1 THEN Longest3HeadBonus + venue_adj
    ELSE Longest3ThirdBonus + venue_adj

\* B. for car in u_info['members']: one bump per member position
RECURSIVE LineLongest(_, _, _, _)
LineLongest(rows, members, pos, venue_adj) ==
    IF pos > Len(members) THEN rows
    ELSE LET final_b == LongestBonus(Len(members), pos - 1, venue_adj)
             t == IF Len(members) >= 4 THEN "longest4" ELSE "longest3"
         IN LineLongest(BumpWhere(rows, CarMask(rows, members[pos]), final_b,
                                  <<Tag(t, final_b)>>),
                        members, pos + 1, venue_adj)

ClassicLine(d, rows) ==
    IF "line" \in d.cols /\ rows # <<>>
    THEN LET line_infos == LineInfos(rows)
         IN IF line_infos = <<>> THEN rows
            ELSE LET third == LineThird(rows, line_infos, 1)
                     max_len == line_infos[1].len
                     unique == Cardinality({k \in DOMAIN line_infos :
                                              line_infos[k].len = max_len}) = 1
                 IN IF unique /\ max_len >= 3
                    THEN LineLongest(third, line_infos[1].members, 1,
                                     VenueAdj(PlaceName(d)))
                    ELSE third
    ELSE rows

\* 'pat' in c, for a label c and a pattern pat given as character sequences.
Contains(c, pat) ==
    \E i \in 1..(Len(c) - Len(pat) + 1) : SubSeq(c, i, i + Len(pat) - 1) = pat

Labels(d) == {d.rows[i].kyuhan : i \in DOMAIN d.rows}

\* 7. the class tier of the scoring engine: A3 is checked before S
ScoreRaceClass(d) ==
    IF "kyuhan" \notin d.cols THEN "A"
    ELSE IF \E c \in Labels(d) : Contains(c, <<"A", "3">>)
                                   \/ Contains(c, <<"A", "kyu", "3", "han">>)
         THEN "A3"
    ELSE IF \E c \in Labels(d) : Contains(c, <<"S">>) THEN "S"
    ELSE "A"

\* df['base_score'].idxmax(): the first row holding the maximum
IdxMaxBase(rows) ==
    CHOOSE i \in DOMAIN rows :
        /\ \A j \in DOMAIN rows : rows[j].base_score <= rows[i].base_score
        /\ \A j \in 1..(i - 1) : rows[j].base_score < rows[i].base_score

\* row.get('is_top_nige', 0) == 1
TopFlag(d, r, col) == col \in d.cols /\ r[col]

\* a lift that sums the amounts of the applicable flags
LiftSummed(race_class, top_nige, top_makuri, top_sashi) ==
    LET On(flag, x) == IF flag THEN x ELSE 0
    IN IF race_class = "A3"
       THEN Tag("A3_lift", On(top_nige, 40) + On(top_makuri, 40))
       ELSE IF race_class = "A"
       THEN Tag("A_lift", On(top_nige, 25) + On(top_makuri, 20))
       ELSE Tag("S_lift", On(top_nige, 15) + On(top_sashi, 5))

\* lift_bonus = max(lift_bonus, x) per applicable flag, lift_reason the last
\* applicable one, by tier
Lift(race_class, top_nige, top_makuri, top_sashi) ==
    LET On(flag, x) == IF flag THEN x ELSE 0
    IN IF race_class = "A3"
       THEN Tag(IF top_makuri THEN "A3_lift_makuri" ELSE "A3_lift_nige",
                Max2(Max2(0, On(top_nige, 40)), On(top_makuri, 40)))
       ELSE IF race_class = "A"
       THEN Tag(IF top_makuri THEN "A_lift_makuri" ELSE "A_lift_nige",
                Max2(Max2(0, On(top_nige, 25)), On(top_makuri, 20)))
       ELSE Tag(IF top_sashi THEN "S_lift_sashi" ELSE "S_lift_nige",
                Max2(Max2(0, On(top_nige, 15)), On(top_sashi, 5)))

ClassicLift(d, rows) ==
    IF rows = <<>> THEN rows
    ELSE LET top == IdxMaxBase(rows)
             lift == Lift(ScoreRaceClass(d),
                          TopFlag(d, rows[top], "is_top_nige"),
                          TopFlag(d, rows[top], "is_top_makuri"),
                          TopFlag(d, rows[top], "is_top_sashi"))
         IN IF lift.v > 0
            THEN [rows EXCEPT ![top] = Bump(@, lift.v, <<lift>>)]
            ELSE rows

\* calculate_classic_score: without the rating column every ai_score is 0.0
\* and neither base_score nor ai_tag is created.
calculate_classic_score(d) ==
    IF "pts" \notin d.cols
    THEN [d EXCEPT !.cols = @ \cup {"ai_score"},
                   !.rows = [i \in DOMAIN d.rows |-> [d.rows[i] EXCEPT !.ai_score = 0]]]
    ELSE LET d1 == [d EXCEPT !.cols = @ \cup {"base_score", "ai_score", "ai_tag"}]
             r1 == ClassicBase(d.rows)
             r2 == ClassicLocal(d1, r1)
             r3 == ClassicTactic(d1, r2)
             r4 == ClassicBank(d1, r3)
             r6 == ClassicLine(d1, r4)
             r7 == ClassicLift(d1, r6)
         IN [d1 EXCEPT !.rows = r7]

----------------------------------------------------------------------------
(* Rider Scoring Engine, V3 overlay                                        *)

\* pd.to_numeric(df[col], errors='coerce').fillna(0), or 0.0 without the column
Val(d, r, col) == IF col \in d.cols THEN r[col] ELSE 0

ColVals(d, col) == [i \in DOMAIN d.rows |-> Val(d, d.rows[i], col)]

DomMinCount == 5
DomMinDiff == 5
DomMinRatio == 3

\* dominance by the difference rule alone, without the ratio rule
DominanceByDiff(d, col) ==
    LET v == ColVals(d, col)
        vals == SortDesc(v, v)
    IN IF Len(vals) < 2 THEN {}
       ELSE {i \in DOMAIN v : v[i] = vals[1] /\ vals[1] >= DomMinCount
                                /\ vals[1] >= vals[2] + DomMinDiff}

\* check_dominance: the boolean mask over the rows, as a set of indices
check_dominance(d, col) ==
    LET v == ColVals(d, col)
        vals == SortDesc(v, v)
    IN IF Len(vals) < 2 THEN {}
       ELSE LET top_val == vals[1]
                sec_val == vals[2]
                is_dom == /\ top_val >= DomMinCount
                          /\ \/ top_val >= sec_val + DomMinDiff
                             \/ (sec_val > 0 /\ top_val >= DomMinRatio * sec_val)
                             \/ (sec_val = 0 /\ top_val >= DomMinCount)
            IN {i \in DOMAIN v : v[i] = top_val /\ top_val > 0 /\ is_dom}

\* df['is_b_top'] = (df['B_val'] == max_b) & (max_b > 0)
BTopMask(d) ==
    LET v == ColVals(d, "B")
    IN {i \in DOMAIN v : v[i] = SeqMax(v) /\ SeqMax(v) > 0}

NigeWarMin == 3

\* nige_count = len(df[df['nige_val'] >= 3])
NigeCount(d) ==
    Cardinality({i \in DOMAIN d.rows : Val(d, d.rows[i], "nige") >= NigeWarMin})

BTopShort == 30
BTopLong == 10
BTopNeutral == 20

BTopAdd(r, is_short_bank, is_long_bank) ==
    IF ~r.is_b_top THEN <<>>
    ELSE IF is_short_bank THEN <<Tag("B-Top:short", BTopShort)>>
    ELSE IF is_long_bank THEN <<Tag("B-Top:long", BTopLong)>>
    ELSE <<Tag("B-Top", BTopNeutral)>>

DomMakuriBonus == 60
DomNigeShortBonus == 50
DomNigeBonus == 30
DomSashiBonus == 20

\* if is_dom_makuri ... elif is_dom_nige ... elif is_dom_sashi
DominanceAdd(r, is_short_bank) ==
    IF r.is_dom_makuri THEN <<Tag("dom_makuri(SS)", DomMakuriBonus)>>
    ELSE IF r.is_dom_nige
    THEN (IF is_short_bank THEN <<Tag("dom_nige:short(S)", DomNigeShortBonus)>>
          ELSE <<Tag("dom_nige", DomNigeBonus)>>)
    ELSE IF r.is_dom_sashi THEN <<Tag("dom_sashi", DomSashiBonus)>>
    ELSE <<>>

\* a contested-escape penalty twice as deep
NigeWarPenaltyDoubled == 0 - 20

NigeWarPenalty == -10
NigeWarBoost == 20
NigeWarBoostMin == 5

\* the contested-escape adjustment of one row
NigeWarAdd(d, r, nige_count) ==
    IF nige_count >= NigeWarMin
    THEN (IF "kyaku" \in d.cols /\ "sashi" \in r.kyaku /\ ~r.is_dom_sashi
          THEN <<Tag("war:sashi_penalty", NigeWarPenalty)>> ELSE <<>>)
         \o
         (IF r.is_dom_nige
             \/ (Val(d, r, "nige") = SeqMax(ColVals(d, "nige"))
                 /\ Val(d, r, "nige") >= NigeWarBoostMin)
          THEN <<Tag("war:nige_boost", NigeWarBoost)>> ELSE <<>>)
    ELSE <<>>

\* score_add and tag_add of one row: every tag carries its score change
V3Add(d, r, nige_count) ==
    LET str_len == BankSpecs(d)[1]
        is_short_bank == str_len < ShortStraight
        is_long_bank == str_len > LongStraight
    IN BTopAdd(r, is_short_bank, is_long_bank)
       \o DominanceAdd(r, is_short_bank)
       \o NigeWarAdd(d, r, nige_count)

\* apply_v3_logic: [df, raised].  Reading df.loc[idx, 'ai_tag'] of a frame
\* without that column raises KeyError.
apply_v3_logic(d) ==
    IF d.rows = <<>> THEN [df |-> d, raised |-> "none"]
    ELSE LET dom_nige == check_dominance(d, "nige")
             dom_makuri == check_dominance(d, "makuri")
             dom_sashi == check_dominance(d, "sashi")
             b_top == BTopMask(d)
             flagged == [i \in DOMAIN d.rows |->
                           [d.rows[i] EXCEPT !.is_b_top = i \in b_top,
                                             !.is_dom_nige = i \in dom_nige,
                                             !.is_dom_makuri = i \in dom_makuri,
                                             !.is_dom_sashi = i \in dom_sashi]]
             d1 == [d EXCEPT !.rows = flagged,
                             !.cols = @ \cup {"is_b_top", "is_dom_nige",
                                              "is_dom_makuri", "is_dom_sashi"}]
             nige_count == NigeCount(d)
             scored == [i \in DOMAIN flagged |->
                          LET add == V3Add(d1, flagged[i], nige_count)
                          IN Bump(flagged[i],
                                  SeqSum([k \in DOMAIN add |-> add[k].v]), add)]
         IN IF "ai_tag" \notin d.cols
            THEN [df |-> d1, raised |-> "KeyError"]
            ELSE [df |-> [d1 EXCEPT !.rows = scored,
                                    !.cols = @ \cup {"v3_nige_count"}],
                  raised |-> "none"]

\* calculate_ai_score: classic rules, then the V3 overlay
calculate_ai_score(d) == apply_v3_logic(calculate_classic_score(d))

----------------------------------------------------------------------------
(* Race Classifier                                                         *)

\* c4 / c5 of a field that has no 4th / 5th rider (None)
NoCar == 0 - 1

\* df_logic = pred_df.sort_values(score_col, ascending=False)
DfLogic(d) == SortDesc(d.rows, [i \in DOMAIN d.rows |-> d.rows[i].ai_score])

CarAt(logic, k) == IF Len(logic) >= k THEN logic[k].car ELSE NoCar

\* the win rates without the normalisation to shares of the total
WinRatesRaw(d, logic) ==
    [num |-> [k \in 1..3 |-> logic[k].ai_score], den |-> 1]

\* The win rates w1, w2, w3 as fractions num[k] / den of a tenth of a percent:
\* shares of the total when the scores are raw (total > 0 and w1_raw > 50),
\* else the scores themselves.
WinRates(d, logic) ==
    LET total_score == SeqSum([i \in DOMAIN d.rows |-> d.rows[i].ai_score])
        normalize == total_score > 0 /\ logic[1].ai_score > 500
    IN [num |-> [k \in 1..3 |-> IF normalize THEN logic[k].ai_score * 1000
                                 ELSE logic[k].ai_score],
        den |-> IF normalize THEN total_score ELSE 1]

\* target_hole_cars = sorted(list(set(ai_match_cars)))
TargetHoleCars(ai_match_cars) ==
    LET cars == {ai_match_cars[i] : i \in DOMAIN ai_match_cars}
    IN [c \in 1..Cardinality(cars) |->
          CHOOSE x \in cars : Cardinality({y \in cars : y < x}) = c - 1]

\* an override list that never switches the high-return mode on
NeverHighReturn(ai_match_cars, c1) == FALSE

\* is_high_return_mode: some override car differs from the top-scored car
IsHighReturn(ai_match_cars, c1) ==
    \E i \in DOMAIN ai_match_cars : ai_match_cars[i] # c1

\* len(str(l)) of a line cell: its digits and the blanks between its groups
LineStrLen(cell) ==
    SeqSum([k \in DOMAIN cell |-> Len(cell[k])])
    + (IF Len(cell) > 0 THEN Len(cell) - 1 ELSE 0)

\* a cell whose string is "0" or ""
IsNoLine(cell) == cell = <<>> \/ cell = << <<>> >> \/ cell = << <<0>> >>

\* line_counts: the string lengths of the distinct valid line cells, descending
LineCounts(d) ==
    IF "line" \notin d.cols THEN <<>>
    ELSE LET valid == {c \in {d.rows[i].line : i \in DOMAIN d.rows} : ~IsNoLine(c)}
             RECURSIVE Lengths(_)
             Lengths(S) == IF S = {} THEN <<>>
                           ELSE LET c == CHOOSE x \in S : TRUE
                                IN <<LineStrLen(c)>> \o Lengths(S \ {c})
             lens == Lengths(valid)
         IN SortDesc(lens, lens)

\* 2. the class tier of the classifier: S is checked before A3
StrategyRaceClass(d) ==
    IF "kyuhan" \notin d.cols THEN "A"
    ELSE IF \E c \in Labels(d) : Contains(c, <<"S">>) THEN "S"
    ELSE IF \E c \in Labels(d) : Contains(c, <<"A", "3">>) THEN "A3"
    ELSE "A"

\* p1.get('base_score', 80.0)
BaseScoreGet(d, r) == IF "base_score" \in d.cols THEN r.base_score ELSE DefaultBase

\* others: the rows of p1's line other than p1, strongest base score first
PartnerRows(d, p1) ==
    IF "line" \in d.cols /\ ~IsNoLine(p1.line)
    THEN LET others == SelectSeq(d.rows, LAMBDA r : r.line = p1.line /\ r.car # p1.car)
         IN SortDesc(others, [i \in DOMAIN others |-> others[i].base_score])
    ELSE <<>>

NoPartnerGap == 9990

\* partner_gap = abs(p1_base_score - p_score), 999.0 without a partner
PartnerGap(d, p1) ==
    IF PartnerRows(d, p1) = <<>> THEN NoPartnerGap
    ELSE Abs(BaseScoreGet(d, p1) - BaseScoreGet(d, PartnerRows(d, p1)[1]))

FixGapMax == 100
LeadGapMaxS == 100
LeadGapMax == 150
BreakGapMin == 200
FixLineMin == 4
BreakLinesMin == 4

\* a suji mode whose FIX has no safety valve on the partner gap
SujiModeNoValve(race_class, line_counts, bank_straight, partner_gap) ==
    LET cond_a_1 == line_counts # <<>> /\ race_class = "A3"
                    /\ SeqMax(line_counts) >= FixLineMin
        cond_a_2 == race_class = "A" /\ Len(line_counts) = 2
                    /\ bank_straight < ShortStraight
        is_valid_b == IF race_class = "S" THEN partner_gap <= LeadGapMaxS
                      ELSE partner_gap <= LeadGapMax
    IN IF race_class = "S" /\ Len(line_counts) >= BreakLinesMin THEN "C"
       ELSE IF partner_gap > BreakGapMin /\ race_class = "S" THEN "C"
       ELSE IF cond_a_1 \/ cond_a_2 THEN "A"
       ELSE IF is_valid_b THEN "B"
       ELSE "none"

\* a suji mode in which a valid LEAD is not overridden by BREAK
SujiModeLeadFirst(race_class, line_counts, bank_straight, partner_gap) ==
    LET cond_a_1 == line_counts # <<>> /\ race_class = "A3"
                    /\ SeqMax(line_counts) >= FixLineMin
        cond_a_2 == race_class = "A" /\ Len(line_counts) = 2
                    /\ bank_straight < ShortStraight
        is_valid_b == IF race_class = "S" THEN partner_gap <= LeadGapMaxS
                      ELSE partner_gap <= LeadGapMax
    IN IF (cond_a_1 \/ cond_a_2) /\ partner_gap <= FixGapMax THEN "A"
       ELSE IF is_valid_b THEN "B"
       ELSE IF race_class = "S" /\ Len(line_counts) >= BreakLinesMin THEN "C"
       ELSE IF partner_gap > BreakGapMin /\ race_class = "S" THEN "C"
       ELSE "none"

\* 4. suji_mode: "A", "B", "C" or "none"
SujiMode(race_class, line_counts, bank_straight, partner_gap) ==
    LET cond_a_1 == line_counts # <<>> /\ race_class = "A3"
                    /\ SeqMax(line_counts) >= FixLineMin
        cond_a_2 == race_class = "A" /\ Len(line_counts) = 2
                    /\ bank_straight < ShortStraight
        mode_a == (cond_a_1 \/ cond_a_2) /\ partner_gap <= FixGapMax
        is_valid_b == IF race_class = "S" THEN partner_gap <= LeadGapMaxS
                      ELSE partner_gap <= LeadGapMax
        is_hosogire == Len(line_counts) >= BreakLinesMin
    IN IF race_class = "S" /\ is_hosogire THEN "C"
       ELSE IF partner_gap > BreakGapMin /\ race_class = "S" THEN "C"
       ELSE IF mode_a THEN "A"
       ELSE IF is_valid_b THEN "B"
       ELSE "none"

\* is_strict: the narrower tier-specific thresholds of FIX and LEAD
IsStrict(race_class, line_counts, bank_specs, partner_gap) ==
    IF race_class = "S"
    THEN Len(line_counts) = 3 /\ bank_specs[3] \in {3330, 3350} /\ partner_gap <= 50
    ELSE IF race_class = "A"
    THEN Len(line_counts) = 3 /\ bank_specs[2] >= 500 /\ partner_gap <= 100
    ELSE partner_gap <= 100

Unbound == <<>>

Verdict(race_type, reason, strict, confidence_level, recommended_points) ==
    [race_type |-> race_type, reason |-> reason, strict |-> strict,
     confidence_level |-> confidence_level,
     recommended_points |-> recommended_points]

\* the score-gap fallback, on the win rates w = num / den (tenths of a percent)
GapFallback(w) ==
    LET n == w.num
        D == w.den
    IN IF n[1] < 120 * D
       THEN Verdict("skip", "no clear favourite", FALSE, Unbound, Unbound)
       ELSE IF n[1] >= 300 * D /\ n[1] - n[2] >= 100 * D
       THEN Verdict("teppan", "one strong", FALSE, <<"high">>, <<6, 3>>)
       ELSE IF n[1] >= 250 * D /\ n[2] >= 200 * D
       THEN Verdict("two_strong", "two strong", FALSE, <<"high">>, <<8, 4>>)
       ELSE IF n[1] - n[3] < 50 * D
       THEN Verdict("chaos", "wide open", FALSE, <<"low">>, <<18, 9>>)
       ELSE Verdict("standard", "middling", FALSE, <<"mid">>, <<12, 6>>)

\* p1.get(flag, False)
Flag(d, r, col) == col \in d.cols /\ r[col]

\* The classification of generate_betting_strategy: race_type, reason,
\* strictness and the two local variables confidence_level and
\* recommended_points, which stay unbound on the branches that never assign
\* them.
Classify(d, ai_match_cars) ==
    LET logic == DfLogic(d)
        p1 == logic[1]
        bank_specs == BankSpecs(d)
        bank_straight == bank_specs[1]
        line_counts == LineCounts(d)
        race_class == StrategyRaceClass(d)
        partner_gap == PartnerGap(d, p1)
        suji_mode == SujiMode(race_class, line_counts, bank_straight, partner_gap)
        strict == IsStrict(race_class, line_counts, bank_specs, partner_gap)
    IN IF IsHighReturn(ai_match_cars, p1.car)
       THEN Verdict("snipe", "high return pattern", FALSE, Unbound, Unbound)
       ELSE IF Flag(d, p1, "is_dom_makuri")
       THEN Verdict("star_makuri", "dominant makuri", FALSE, <<"SS">>, <<4, 2>>)
       ELSE IF Flag(d, p1, "is_dom_nige") /\ bank_straight < ShortStraight
       THEN Verdict("star_nige_short", "dominant nige short", FALSE, <<"S">>, <<3, 1>>)
       ELSE IF Flag(d, p1, "is_b_top") /\ bank_straight < ShortStraight
       THEN Verdict("star_btop_short", "b-top short", FALSE, <<"A">>, <<6, 2>>)
       ELSE IF suji_mode = "A"
       THEN Verdict("suji_fix", "suji fix", strict, <<"kiwami">>, <<4, 1>>)
       ELSE IF suji_mode = "B"
       THEN Verdict("suji_lead", "suji lead", strict, <<"high">>, <<8, 3>>)
       ELSE IF suji_mode = "C"
       THEN Verdict("line_breaker", "suji break", FALSE, <<"low">>, <<16, 6>>)
       ELSE GapFallback(WinRates(d, logic))

----------------------------------------------------------------------------
(* Ticket notation.  A ticket string is a sequence of tokens: the bet-kind  *)
(* words, ":", " ", ",", the separators "->" (directional), "<->" (fold),   *)
(* "=" and "-", one token per digit, and the annotations, which hold none   *)
(* of the characters the parsers look for.                                  *)

Digits == <<"1", "2", "3", "4", "5", "6", "7", "8", "9">>

IsDigit(tok) == tok = "0" \/ \E k \in DOMAIN Digits : Digits[k] = tok

\* str(c) of a car number, "None" for a missing rider
CarStr(c) == IF c = NoCar THEN "None" ELSE IF c = 0 THEN "0" ELSE Digits[c]

\* int(tok) of a digit token
CarInt(tok) == IF tok = "0" THEN 0 ELSE CHOOSE k \in DOMAIN Digits : Digits[k] = tok

\* ",".join(map(str, cars))
RECURSIVE JoinCars(_)
JoinCars(cars) ==
    IF cars = <<>> THEN <<>>
    ELSE IF Len(cars) = 1 THEN <<CarStr(cars[1])>>
    ELSE <<CarStr(cars[1]), ",">> \o JoinCars(Tail(cars))

\* sep in s
HasTok(s, sep) == \E i \in DOMAIN s : s[i] = sep

\* s.split(sep)
RECURSIVE Split(_, _)
Split(s, sep) ==
    IF ~HasTok(s, sep) THEN <<s>>
    ELSE LET i == CHOOSE k \in DOMAIN s : s[k] = sep /\ \A j \in 1..(k - 1) : s[j] # sep
         IN <<SubSeq(s, 1, i - 1)>> \o Split(SubSeq(s, i + 1, Len(s)), sep)

\* s.strip()
RECURSIVE Strip(_)
Strip(s) ==
    IF s = <<>> THEN s
    ELSE IF Head(s) = " " THEN Strip(Tail(s))
    ELSE IF s[Len(s)] = " " THEN Strip(SubSeq(s, 1, Len(s) - 1))
    ELSE s

\* t.split(':')[-1].strip()
Body(t) == LET parts == Split(t, ":") IN Strip(parts[Len(parts)])

----------------------------------------------------------------------------
(* Ticket Generator                                                        *)

\* f"{head}: {g1} {sep} {g2} {sep} {g3}"
RECURSIVE JoinGroups(_, _)
JoinGroups(groups, sep) ==
    IF Len(groups) = 1 THEN groups[1]
    ELSE groups[1] \o <<" ", sep, " ">> \o JoinGroups(Tail(groups), sep)

Ticket(head, groups, sep) == head \o <<":", " ">> \o JoinGroups(groups, sep)

Trifecta == <<"3rentan">>
TrifectaForm == <<"3rentan", " ", "(formation)">>
Exacta == <<"2shatan">>

\* [x for x in cars if x]: None and 0 are dropped
Truthy(cars) == SelectSeq(cars, LAMBDA x : x # NoCar /\ x # 0)

\* [x for x in cars if int(x) != int(c1) and int(x) != pt]
Except2(cars, c1, pt) == SelectSeq(cars, LAMBDA x : x # c1 /\ x # pt)

\* pt = int(p1_partner['car']) if p1_partner is not None else int(c2)
PartnerCar(d, logic) ==
    IF PartnerRows(d, logic[1]) = <<>> THEN logic[2].car
    ELSE PartnerRows(d, logic[1])[1].car

\* rec_tickets after the archetype branch; c is <<c1, c2, c3, c4, c5>>.
\* int(None) raises TypeError where a list holding c4 is filtered with int().
ArchetypeTickets(race_type, c, pt, target_hole_cars) ==
    LET c1 == c[1]
        c2 == c[2]
        c3 == c[3]
        c4 == c[4]
        c5 == c[5]
        S(x) == <<CarStr(x)>>
        Ok(tickets) == [raised |-> "none", tickets |-> tickets]
        TypeError == [raised |-> "TypeError", tickets |-> <<>>]
    IN CASE race_type = "skip" -> Ok(<<>>)
         [] race_type = "star_makuri" ->
              Ok(<<Ticket(Trifecta, <<S(c1), JoinCars(<<c2, c3>>),
                                      JoinCars(<<c2, c3, c4>>)>>, "->"),
                   Ticket(Exacta, <<S(c1), JoinCars(<<c2, c3>>)>>, "->")>>)
         [] race_type = "star_nige_short" ->
              IF c4 = NoCar THEN TypeError
              ELSE LET th_cands == Except2(<<c2, c3, c4>>, c1, pt)
                       th_str == IF th_cands # <<>> THEN JoinCars(th_cands)
                                 ELSE <<"zen">>
                   IN Ok(<<Ticket(Trifecta, <<S(c1), S(pt), th_str>>, "->"),
                           Ticket(Exacta, <<S(c1), S(pt) \o <<" ", "(1ten)">> >>, "->")>>)
         [] race_type = "star_btop_short" ->
              IF c4 = NoCar THEN TypeError
              ELSE LET th_cands == Except2(<<c2, c3, c4>>, c1, pt)
                   IN Ok(<<Trifecta \o <<":", " ">> \o S(c1) \o <<" ", "<->", " ">>
                             \o S(pt) \o <<" ", "->", " ">> \o JoinCars(th_cands),
                           Ticket(Exacta, <<S(c1), S(pt)>>, "<->")>>)
         [] race_type = "snipe" ->
              LET tc == IF target_hole_cars # <<>> THEN target_hole_cars[1] ELSE c3
              IN Ok(<<Ticket(TrifectaForm, <<S(tc), JoinCars(<<c1, c2>>),
                                             JoinCars(<<c1, c2, c3>>)>>, "-")>>)
         [] race_type = "suji_fix" ->
              IF c4 = NoCar THEN TypeError
              ELSE LET others == Except2(<<c2, c3, c4>>, c1, pt)
                   IN Ok(<<Ticket(Trifecta,
                                  <<S(c1), S(pt),
                                    IF others # <<>> THEN JoinCars(others)
                                    ELSE <<"zen">> >>, "->")>>)
         [] race_type = "suji_lead" ->
              LET other_heads == Except2(<<c2, c3>>, c1, pt)
                  s_2nd == JoinCars(<<pt>> \o other_heads)
              IN Ok(<<Ticket(TrifectaForm,
                             <<S(c1), s_2nd, s_2nd \o <<",">> \o S(c4)>>, "->")>>)
         [] race_type = "line_breaker" ->
              IF c4 = NoCar THEN TypeError
              ELSE Ok(<<Ticket(<<"3rentan", " ", "(Box)">>,
                               <<JoinCars(<<c1, c2, c3>>)>>, "-")>>)
         [] race_type = "teppan" ->
              LET third_row == SelectSeq(Truthy(<<c2, c3, c4>>), LAMBDA x : x # c2)
              IN Ok(<<Ticket(TrifectaForm, <<S(c1), JoinCars(<<c2, c3>>),
                                             JoinCars(third_row)>>, "-")>>)
         [] race_type = "two_strong" ->
              Ok(<<<<"3rentan", " ", "(2jiku)", ":", " ">> \o S(c1) \o <<" ", "=", " ">>
                     \o S(c2) \o <<" ", "-", " ">> \o JoinCars(<<c3, c4>>)>>)
         [] race_type = "chaos" ->
              Ok(<<Ticket(TrifectaForm, <<JoinCars(<<c1, c2>>), JoinCars(<<c1, c2, c3>>),
                                          JoinCars(Truthy(<<c2, c3, c4, c5>>))>>, "-")>>)
         [] OTHER ->
              LET third_row == SelectSeq(Truthy(<<c1, c2, c3, c4, c5>>),
                                         LAMBDA x : x # c1 /\ x # c2)
              IN Ok(<<Ticket(TrifectaForm, <<S(c1), JoinCars(<<c2, c3>>),
                                             JoinCars(third_row)>>, "-")>>)

\* the leading number of an annotation token, if it holds one
AnnotDigit(tok) == IF tok = "(1ten)" THEN "1" ELSE IF tok = "(2jiku)" THEN "2" ELSE ""

\* _parse_cars: the first number of every comma-separated piece
ParseCars(s) ==
    LET pieces == Split(s, ",")
        Nums(p) == SelectSeq([k \in DOMAIN p |->
                                IF IsDigit(p[k]) THEN p[k] ELSE AnnotDigit(p[k])],
                             LAMBDA x : x # "")
        with == SelectSeq(pieces, LAMBDA p : Nums(p) # <<>>)
    IN [k \in DOMAIN with |-> CarInt(Nums(with[k])[1])]

\* no ticket counted as covering anything
CoveredByNothing(t) == {}

\* the ordered pairs one exacta ticket already covers
CoveredBy(t) ==
    LET body == Body(t)
        Cross(parts, both) ==
            LET g1 == ParseCars(parts[1])
                g2 == ParseCars(parts[2])
                fwd == {<<g1[i], g2[j]>> : i \in DOMAIN g1, j \in DOMAIN g2}
            IN IF both THEN fwd \cup {<<pr[2], pr[1]>> : pr \in fwd} ELSE fwd
    IN IF ~HasTok(t, "2shatan") THEN {}
       ELSE IF HasTok(body, "<->") THEN Cross(Split(body, "<->"), TRUE)
       ELSE IF HasTok(body, "->") THEN Cross(Split(body, "->"), FALSE)
       ELSE IF HasTok(body, "=") THEN Cross(Split(body, "="), TRUE)
       ELSE {}

\* covered_2t_pairs over all of rec_tickets
CoveredPairs(tickets) == UNION {CoveredBy(tickets[k]) : k \in DOMAIN tickets}

\* the deduplicated base exacta c1 -> c2,c3,c4, inserted first
WithBaseExacta(tickets, c) ==
    LET covered == CoveredPairs(tickets)
        base_flow_full == Truthy(<<c[2], c[3], c[4]>>)
        base_flow_dedup == SelectSeq(base_flow_full,
                                     LAMBDA cand : <<c[1], cand>> \notin covered)
    IN IF base_flow_dedup # <<>>
       THEN <<Ticket(Exacta, <<<<CarStr(c[1])>>, JoinCars(base_flow_dedup)>>, "->")>>
            \o tickets
       ELSE tickets

NoStrategy == [type |-> "none", reason |-> "", tickets |-> <<>>, strict |-> FALSE,
               confidence_level |-> Unbound, recommended_points |-> Unbound]

InsufficientData == [NoStrategy EXCEPT !.type = "error", !.reason = "insufficient data"]

\* how a call left: the exception or "none", the dictionary returned, and the
\* locals race_type ("unset" before the classification) and rec_tickets
Left(e, result, type, tickets) ==
    [raised |-> e, result |-> result,
     locals |-> [race_type |-> type, rec_tickets |-> tickets]]

NoLocals == [race_type |-> "unset", rec_tickets |-> <<>>]

Raise(e) == Left(e, NoStrategy, "unset", <<>>)

\* the size guard off by one
TooFewBelowTwo(d) == Len(d.rows) < 2

\* if len(df_logic) < 3
TooFew(d) == Len(d.rows) < 3

\* the return statement: reading a local that no branch assigned raises
\* UnboundLocalError, with rec_tickets already complete
Returning(v, tickets) ==
    IF v.confidence_level = Unbound \/ v.recommended_points = Unbound
    THEN Left("UnboundLocalError", NoStrategy, v.race_type, tickets)
    ELSE Left("none",
              [type |-> v.race_type, reason |-> v.reason, tickets |-> tickets,
               strict |-> v.strict, confidence_level |-> v.confidence_level,
               recommended_points |-> v.recommended_points],
              v.race_type, tickets)

\* generate_betting_strategy: [raised, result, locals].  The pseudo-EV figures and the
\* structured_bets list of the returned dictionary are display data and are
\* left out.  df_logic.iloc[2] raises IndexError on a frame of fewer than 3
\* rows.
generate_betting_strategy(d, ai_match_cars) ==
    IF "ai_score" \notin d.cols THEN Raise("KeyError")
    ELSE IF TooFew(d) THEN Left("none", InsufficientData, "unset", <<>>)
    ELSE IF Len(d.rows) < 3 THEN Raise("IndexError")
    ELSE LET logic == DfLogic(d)
             c == [k \in 1..5 |-> CarAt(logic, k)]
         IN IF "base_score" \notin d.cols /\ PartnerRows(d, logic[1]) # <<>>
            THEN Raise("KeyError")
            ELSE LET v == Classify(d, ai_match_cars)
                     gen == ArchetypeTickets(v.race_type, c, PartnerCar(d, logic),
                                             TargetHoleCars(ai_match_cars))
                 IN IF gen.raised # "none"
                    THEN Left(gen.raised, NoStrategy, v.race_type, <<>>)
                    ELSE Returning(v, WithBaseExacta(gen.tickets, c))

----------------------------------------------------------------------------
(* Settlement Engine (analyze_prediction_history): ticket expansion        *)
(* A car inside a ticket is the token sequence left of a group after       *)
(* splitting and stripping, e.g. <<"2">> or <<"2", " ", "(1ten)">>.        *)

\* the bet kind named first in the priority of the if/elif chain
TicketType(t_str) ==
    IF HasTok(t_str, "3rentan") THEN "3rentan"
    ELSE IF HasTok(t_str, "2shatan") THEN "2shatan"
    ELSE IF HasTok(t_str, "3renpuku") THEN "3renpuku"
    ELSE IF HasTok(t_str, "2renpuku") THEN "2renpuku"
    ELSE IF HasTok(t_str, "wide") THEN "wide"
    ELSE "other"

\* the separator the content part is split on
Separator(content_part) ==
    IF HasTok(content_part, "<->") THEN "<->"
    ELSE IF HasTok(content_part, "->") THEN "->"
    ELSE IF HasTok(content_part, "=") THEN "="
    ELSE "-"

\* parts = [p.strip() for p in content_part.split(sep)]
Parts(t_str) ==
    LET content_part == Body(t_str)
        raw == Split(content_part, Separator(content_part))
    IN [k \in DOMAIN raw |-> Strip(raw[k])]

IsFold(t_str) == HasTok(Body(t_str), "<->")

\* [x.strip() for x in p.split(',') if x.strip()]
p_part(p) ==
    IF p = <<>> THEN <<>>
    ELSE LET pieces == Split(p, ",")
         IN SelectSeq([k \in DOMAIN pieces |-> Strip(pieces[k])], LAMBDA x : x # <<>>)

\* for c1 in g1: for c2 in g2: if c1 == c2: continue: append [c1, c2]
Ordered2(g1, g2) ==
    LET n2 == Len(g2)
        all == [x \in 1..(Len(g1) * n2) |->
                  <<g1[((x - 1) \div n2) + 1], g2[((x - 1) % n2) + 1]>>]
    IN SelectSeq(all, LAMBDA c : c[1] # c[2])

\* three loops that let the third car repeat the first
Ordered3Reusing(g1, g2, g3) ==
    LET n2 == Len(g2)
        n3 == Len(g3)
        all == [x \in 1..(Len(g1) * n2 * n3) |->
                  <<g1[((x - 1) \div (n2 * n3)) + 1],
                    g2[(((x - 1) \div n3) % n2) + 1],
                    g3[((x - 1) % n3) + 1]>>]
    IN SelectSeq(all, LAMBDA c : c[1] # c[2] /\ c[3] # c[2])

\* the same loops three deep, c3 differing from c1 and c2
Ordered3(g1, g2, g3) ==
    LET n2 == Len(g2)
        n3 == Len(g3)
        all == [x \in 1..(Len(g1) * n2 * n3) |->
                  <<g1[((x - 1) \div (n2 * n3)) + 1],
                    g2[(((x - 1) \div n3) % n2) + 1],
                    g3[((x - 1) % n3) + 1]>>]
    IN SelectSeq(all, LAMBDA c : c[1] # c[2] /\ c[3] # c[1] /\ c[3] # c[2])

\* the first occurrences of s, in order
FirstSeen(s) ==
    LET idx == SelectSeq([k \in DOMAIN s |-> k],
                         LAMBDA k : \A j \in 1..(k - 1) : s[j] # s[k])
    IN [p \in DOMAIN idx |-> s[idx[p]]]

\* the sorted tuple of a combination of distinct cars, kept only if not seen:
\* an unordered combination is the set of its cars
Unordered(combos) ==
    FirstSeen([k \in DOMAIN combos |->
                 {combos[k][i] : i \in DOMAIN combos[k]}])

\* fold: every pair of unique_cars in both directions.  unique_cars is
\* list(set(g1 + g2)), here in order of first occurrence.
FoldPairs(g1, g2) ==
    LET u == FirstSeen(g1 \o g2)
        n == Len(u)
        ij == SelectSeq([x \in 1..(n * n) |-> <<((x - 1) \div n) + 1, ((x - 1) % n) + 1>>],
                        LAMBDA c : c[1] < c[2])
    IN [p \in 1..(2 * Len(ij)) |->
          LET c == ij[(p + 1) \div 2]
          IN IF p % 2 = 1 THEN <<u[c[1]], u[c[2]]>> ELSE <<u[c[2]], u[c[1]]>>]

\* the groups of a ticket: p_part of every part
Groups(parts) == [k \in DOMAIN parts |-> p_part(parts[k])]

\* the expansion of the groups g under the bet kind
Expand(t_type, is_fold, g) ==
    IF t_type = "3rentan" /\ Len(g) = 3 THEN Ordered3(g[1], g[2], g[3])
    ELSE IF t_type = "2shatan" /\ Len(g) >= 2
    THEN IF is_fold THEN FoldPairs(g[1], g[2]) ELSE Ordered2(g[1], g[2])
    ELSE IF t_type = "3renpuku" /\ Len(g) = 3 THEN Unordered(Ordered3(g[1], g[2], g[3]))
    ELSE IF t_type \in {"2renpuku", "wide"} /\ Len(g) = 2
    THEN Unordered(Ordered2(g[1], g[2]))
    ELSE <<>>

\* combinations: the concrete combinations a ticket expands to, one entry
\* per point counted
Combinations(t_str) == Expand(TicketType(t_str), IsFold(t_str), Groups(Parts(t_str)))

\* if points == 0: the product of len(p.split(',')) over the parts
RECURSIVE FallbackCount(_)
FallbackCount(parts) ==
    IF parts = <<>> THEN 1
    ELSE Len(Split(Head(parts), ",")) * FallbackCount(Tail(parts))

\* points: one per combination, or the fallback count where there is none
Points(combinations, parts) ==
    IF combinations # <<>> THEN Len(combinations) ELSE FallbackCount(parts)

StakeUnit == 100

\* t_invest = points * 100
TicketInvest(t_str) == Points(Combinations(t_str), Parts(t_str)) * StakeUnit

----------------------------------------------------------------------------
(* Settlement Engine: results, hit tests and aggregation                   *)

\* str(race_num).replace('R', '') + 'R'
RaceNumStr(race_num) == SelectSeq(race_num, LAMBDA ch : ch # "R") \o <<"R">>

\* f"{place}_{date}_{r}R", as the triple of its fields
RaceId(h) == <<h.place, h.date, RaceNumStr(h.race_num)>>

\* f"{p}_{d}_{r}_{st_type}", as the tuple of its fields
DedupKey(h) == <<h.place, h.date, RaceNumStr(h.race_num), h.strategy_type>>

\* target_rids: the races of the records that name place, date and number
TargetRids(history) ==
    {RaceId(history[i]) :
        i \in {k \in DOMAIN history :
                 /\ history[k].place # ""
                 /\ history[k].date # ""
                 /\ RaceNumStr(history[k].race_num) # <<"R">>}}

NoRank == 99

\* clean_rank: the finishing position, 99 for anything that is no positive
\* number
clean_rank(x) == IF IsDigit(x) /\ CarInt(x) > 0 THEN CarInt(x) ELSE NoRank

\* any 'L' in the class labels of the result rows
IsGirls(grp) == \E i \in DOMAIN grp.rows : Contains(grp.rows[i].kyuhan, "L")

\* top3: the cars placed 1st to 3rd, in rank order (equal ranks in row order)
Top3(grp) ==
    LET sorted_grp == SortDesc(grp.rows,
                               [i \in DOMAIN grp.rows |-> 0 - clean_rank(grp.rows[i].rank)])
        valid_rows == SelectSeq(sorted_grp,
                                LAMBDA r : clean_rank(r.rank) >= 1 /\ clean_rank(r.rank) <= 3)
    IN [k \in DOMAIN valid_rows |-> <<CarStr(valid_rows[k].car)>>]

\* key_map: the payout columns of the store under the names the hit tests use
key_map ==
    ("2rentan" :> "2shatan") @@ ("2shatan" :> "2shatan") @@ ("3rentan" :> "3rentan")
    @@ ("2renpuku" :> "2renpuku") @@ ("3renpuku" :> "3renpuku")
    @@ ("wide1" :> "wide1") @@ ("wide2" :> "wide2") @@ ("wide3" :> "wide3")

\* payouts: the payout columns present in the first result row; of the two
\* exacta columns the one mapped last wins
Payouts(grp) ==
    LET cols == DOMAIN grp.payouts
        From(logic_k) ==
            IF logic_k = "2shatan" /\ "2shatan" \in cols THEN "2shatan"
            ELSE CHOOSE db_k \in cols : key_map[db_k] = logic_k
    IN [logic_k \in {key_map[db_k] : db_k \in cols} |-> grp.payouts[From(logic_k)]]

\* race_map: the loaded races that are no girls' races
RaceMap(history, results) ==
    LET loaded == {rid \in TargetRids(history) : rid \in DOMAIN results}
    IN [rid \in {r \in loaded : ~IsGirls(results[r])} |->
          [top3 |-> Top3(results[rid]), payouts |-> Payouts(results[rid])]]

\* payouts.get(k, 0)
PayoutGet(payouts, k) == IF k \in DOMAIN payouts THEN payouts[k] ELSE 0

InSeq(s, x) == \E k \in DOMAIN s : s[k] = x

\* the three winning wide pairs in the order of their sorted car numbers
WinPairs(top3) ==
    LET s == SortDesc(top3, [i \in DOMAIN top3 |-> 0 - CarInt(top3[i][1])])
    IN <<{s[1], s[2]}, {s[1], s[3]}, {s[2], s[3]}>>

\* hit_p: the payout of the winning pair cm is, 0 for any other pair
WideHitPay(cm, win_pairs, payouts) ==
    IF ~InSeq(win_pairs, cm) THEN 0
    ELSE PayoutGet(payouts,
                   <<"wide1", "wide2", "wide3">>[CHOOSE p \in 1..3 : win_pairs[p] = cm])

\* a wide return that stops at the first winning pair held
WidePayFirst(combinations, win_pairs, payouts) ==
    LET hits == SelectSeq(combinations, LAMBDA cm : InSeq(win_pairs, cm))
    IN IF hits = <<>> THEN 0 ELSE WideHitPay(hits[1], win_pairs, payouts)

\* the wide return: the sum of the payouts of the winning pairs held
RECURSIVE WidePay(_, _, _)
WidePay(combinations, win_pairs, payouts) ==
    IF combinations = <<>> THEN 0
    ELSE WideHitPay(Head(combinations), win_pairs, payouts)
         + WidePay(Tail(combinations), win_pairs, payouts)

\* if all_hit_flag: pay = ticket_pay
WideHit(ticket_pay) ==
    IF ticket_pay > 0 THEN [tickets_hit |-> TRUE, pay |-> ticket_pay]
    ELSE [tickets_hit |-> FALSE, pay |-> 0]

\* the hit test of one ticket: [tickets_hit, pay]
CheckHit(t_type, combinations, top3, payouts) ==
    LET r1 == top3[1]
        r2 == top3[2]
        has3 == Len(top3) >= 3
        Hit(kind) == [tickets_hit |-> TRUE, pay |-> PayoutGet(payouts, kind)]
        Miss == [tickets_hit |-> FALSE, pay |-> 0]
    IN IF t_type = "3rentan" /\ has3
       THEN IF InSeq(combinations, <<r1, r2, top3[3]>>) THEN Hit("3rentan") ELSE Miss
       ELSE IF t_type = "2shatan"
       THEN IF InSeq(combinations, <<r1, r2>>) THEN Hit("2shatan") ELSE Miss
       ELSE IF t_type = "3renpuku" /\ has3
       THEN IF InSeq(combinations, {r1, r2, top3[3]}) THEN Hit("3renpuku") ELSE Miss
       ELSE IF t_type = "2renpuku"
       THEN IF InSeq(combinations, {r1, r2}) THEN Hit("2renpuku") ELSE Miss
       ELSE IF t_type = "wide" /\ has3
       THEN WideHit(WidePay(combinations, WinPairs(top3), payouts))
       ELSE Miss

\* one row of df_tickets; t_str identifies the ticket the row is about
TicketRowOf(h, t_str, t_type, t_invest, hit) ==
    [place |-> h.place, date |-> h.date, t_str |-> t_str,
     type |-> t_type, invest |-> t_invest,
     return |-> IF hit.tickets_hit THEN hit.pay ELSE 0,
     is_hit |-> IF hit.tickets_hit THEN 1 ELSE 0]

TicketRow(h, t_str, top3, payouts) ==
    TicketRowOf(h, t_str, TicketType(t_str), TicketInvest(t_str),
                CheckHit(TicketType(t_str), Combinations(t_str), top3, payouts))

----------------------------------------------------------------------------
(* Settlement Engine: the batch                                            *)

\* x.get('timestamp', '') compared as strings: a < b over digit sequences
RECURSIVE StrLess(_, _)
StrLess(a, b) ==
    IF b = <<>> THEN FALSE
    ELSE IF a = <<>> THEN TRUE
    ELSE IF Head(a) # Head(b) THEN Head(a) < Head(b)
    ELSE StrLess(Tail(a), Tail(b))

\* sorted(history_data, key=timestamp, reverse=True): the key of a record is
\* the number of records with a smaller timestamp
SortedHistory(history) ==
    SortDesc(history,
             [i \in DOMAIN history |->
                Cardinality({j \in DOMAIN history :
                               StrLess(history[j].timestamp, history[i].timestamp)})])

\* the records seen first under the order given
DedupFirst(sorted_history) ==
    SelectSeq([k \in DOMAIN sorted_history |->
                 [h |-> sorted_history[k],
                  dup |-> \E j \in 1..(k - 1) :
                             DedupKey(sorted_history[j]) = DedupKey(sorted_history[k])]],
              LAMBDA e : ~e.dup)

\* the deduplication without the sort: the first record of a key in input
\* order is kept
DedupedUnsorted(history) ==
    LET kept == DedupFirst(history)
    IN [k \in DOMAIN kept |-> kept[k].h]

\* deduped_history: newest first, the first record of every key kept
Deduped(history) ==
    LET kept == DedupFirst(SortedHistory(history))
    IN [k \in DOMAIN kept |-> kept[k].h]

\* the ticket list of a record: a missing key is the empty list, a single
\* string a list of one; a null list cannot be iterated
TicketItems(h) ==
    IF h.tickets.kind \in {"missing", "null"} THEN <<>> ELSE h.tickets.items

\* iterating None, or testing a substring of an entry that is no string
TicketsRaise(h) ==
    \/ h.tickets.kind = "null"
    \/ \E k \in DOMAIN TicketItems(h) : ~TicketItems(h)[k].is_str

\* the result row of a record with everything still to be filled in
BlankRow(h) ==
    [place |-> h.place, date |-> h.date, race_num |-> RaceNumStr(h.race_num),
     strategy_type |-> h.strategy_type, timestamp |-> h.timestamp,
     tickets |-> h.tickets,
     is_hit |-> FALSE, benefit |-> 0, investment |-> 0, balance |-> 0,
     hit_detail |-> "waiting", status |-> "", result_top3 |-> <<>>]

\* if not payouts or len(top3) < 2
IsPending(res_info) == DOMAIN res_info.payouts = {} \/ Len(res_info.top3) < 2

\* the row of a settled race from the rows of its tickets
SettledRow(row, top3, race_invest, race_return) ==
    [row EXCEPT !.result_top3 = top3,
                !.investment = race_invest,
                !.benefit = race_return,
                !.balance = race_return - race_invest,
                !.is_hit = race_return > 0,
                !.hit_detail = IF race_return > 0 THEN "hit" ELSE "miss"]

\* the race totals with the stake of the tickets that hit only
SettledStakeOfHits(row, top3, ticket_rows) ==
    [raised |-> "none",
     row |-> SettledRow(row, top3,
                        SeqSum([k \in DOMAIN ticket_rows |->
                                  IF ticket_rows[k].is_hit = 1
                                  THEN ticket_rows[k].invest ELSE 0]),
                        SeqSum([k \in DOMAIN ticket_rows |-> ticket_rows[k].return])),
     ticket_rows |-> ticket_rows]

\* race_invest += t_invest for every ticket; race_return += pay for the
\* tickets that hit with a payout above 0
Settled(row, top3, ticket_rows) ==
    [raised |-> "none",
     row |-> SettledRow(row, top3,
                        SeqSum([k \in DOMAIN ticket_rows |-> ticket_rows[k].invest]),
                        SeqSum([k \in DOMAIN ticket_rows |->
                                  IF ticket_rows[k].is_hit = 1 /\ ticket_rows[k].return > 0
                                  THEN ticket_rows[k].return ELSE 0])),
     ticket_rows |-> ticket_rows]

\* the loop over the tickets of a record whose race has a result
SettleTickets(h, items, top3, payouts) ==
    Settled(BlankRow(h), top3,
            [k \in DOMAIN items |-> TicketRow(h, items[k].s, top3, payouts)])

Unsettled(row, status) ==
    [raised |-> "none", row |-> [row EXCEPT !.hit_detail = "no_result", !.status = status],
     ticket_rows |-> <<>>]

\* one pass of the loop over deduped_history: [raised, row, ticket_rows]
SettleRecord(h, race_map) ==
    IF RaceId(h) \notin DOMAIN race_map THEN Unsettled(BlankRow(h), "")
    ELSE IF IsPending(race_map[RaceId(h)]) THEN Unsettled(BlankRow(h), "pending")
    ELSE IF TicketsRaise(h)
    THEN [raised |-> "TypeError", row |-> BlankRow(h), ticket_rows |-> <<>>]
    ELSE SettleTickets(h, TicketItems(h), race_map[RaceId(h)].top3,
                       race_map[RaceId(h)].payouts)

RECURSIVE Concat(_)
Concat(ss) == IF ss = <<>> THEN <<>> ELSE Head(ss) \o Concat(Tail(ss))

\* a ratio times 100, kept as numerator and denominator
Percent(num, den) == [num |-> num * 100, den |-> den]

ZeroPercent == [num |-> 0, den |-> 1]

\* the stats dictionary; present is FALSE for the empty dictionary
NoStats ==
    [present |-> FALSE, total_races |-> 0, total_invest |-> 0, total_return |-> 0,
     balance |-> 0, recovery_rate |-> ZeroPercent, hit_count |-> 0,
     hit_rate |-> ZeroPercent]

HitCount(rows) == Cardinality({k \in DOMAIN rows : rows[k].is_hit})

StatsOf(total_races, total_invest, total_return, hit_count) ==
    [present |-> TRUE,
     total_races |-> total_races,
     total_invest |-> total_invest,
     total_return |-> total_return,
     balance |-> total_return - total_invest,
     recovery_rate |-> IF total_invest > 0 THEN Percent(total_return, total_invest)
                       ELSE ZeroPercent,
     hit_count |-> hit_count,
     hit_rate |-> IF total_races > 0 THEN Percent(hit_count, total_races)
                  ELSE ZeroPercent]

\* stats: the totals over the result rows; a pending row adds no stake and
\* no return
Stats(df_rows) ==
    StatsOf(Len(df_rows),
            SeqSum([k \in DOMAIN df_rows |-> df_rows[k].investment]),
            SeqSum([k \in DOMAIN df_rows |-> df_rows[k].benefit]),
            HitCount(df_rows))

Returned(rows, s, tickets) ==
    [raised |-> "none", df_res |-> rows, stats |-> s, df_tickets |-> tickets]

\* what the loop leaves: the rows, or the exception of the first record
\* that raised
Collect(done) ==
    IF \E k \in DOMAIN done : done[k].raised # "none"
    THEN [raised |-> "TypeError", df_res |-> <<>>, stats |-> NoStats, df_tickets |-> <<>>]
    ELSE Returned([k \in DOMAIN done |-> done[k].row],
                  Stats([k \in DOMAIN done |-> done[k].row]),
                  Concat([k \in DOMAIN done |-> done[k].ticket_rows]))

SettleAll(deduped_history, race_map) ==
    Collect([k \in DOMAIN deduped_history |-> SettleRecord(deduped_history[k], race_map)])

\* chunk_size = 900 in the source; the batches settled here hold a few
\* races, and are read in chunks of this many identifiers
chunk_size == 1

\* rids_list = list(target_rids): the identifiers in one order of the set
RECURSIVE RidsList(_)
RidsList(S) ==
    IF S = {} THEN <<>>
    ELSE LET rid == CHOOSE x \in S : TRUE IN <<rid>> \o RidsList(S \ {rid})

\* for i in range(0, len(rids_list), chunk_size): rids_list[i:i+chunk_size]
Chunks(rids_list) ==
    [c \in 1..((Len(rids_list) + chunk_size - 1) \div chunk_size) |->
        SubSeq(rids_list, (c - 1) * chunk_size + 1,
               IF c * chunk_size < Len(rids_list) THEN c * chunk_size
               ELSE Len(rids_list))]

\* df_source: the result rows of the chunks whose query succeeded; a failed
\* query is printed and skipped
LoadChunks(history, store, fails) ==
    LET chunks == Chunks(RidsList(TargetRids(history)))
        read == UNION {{chunks[c][k] : k \in DOMAIN chunks[c]} :
                          c \in DOMAIN chunks \ fails}
    IN [rid \in read \cap DOMAIN store |-> store[rid]]

\* what a call that raised leaves
Raised(e) == [raised |-> e, df_res |-> <<>>, stats |-> NoStats, df_tickets |-> <<>>]

\* analyze_prediction_history(history_data), df_source being what the
\* queries returned.  With no row loaded df_source is pd.DataFrame(), and
\* df_db.groupby('race_id') raises KeyError.
analyze_prediction_history(history, df_source) ==
    IF history = <<>> \/ TargetRids(history) = {} THEN Returned(<<>>, NoStats, <<>>)
    ELSE IF DOMAIN df_source = {} THEN Raised("KeyError")
    ELSE SettleAll(Deduped(history), RaceMap(history, df_source))

DisplayOf(total_cnt, disp_cnt, disp_invest, disp_return, disp_hit) ==
    [total_cnt |-> total_cnt,
     disp_cnt |-> disp_cnt,
     disp_invest |-> disp_invest,
     disp_return |-> disp_return,
     disp_rec |-> IF disp_invest > 0 THEN Percent(disp_return, disp_invest)
                  ELSE ZeroPercent,
     disp_hit |-> disp_hit,
     disp_hit_rate |-> IF disp_cnt > 0 THEN Percent(disp_hit, disp_cnt) ELSE ZeroPercent]

\* df_calc: the rows whose hit_detail is neither of the two pending texts
SettledRows(df_rows) ==
    SelectSeq(df_rows, LAMBDA r : r.hit_detail \notin {"no_result", "waiting"})

DisplaySummary(df_rows, df_calc) ==
    DisplayOf(Len(df_rows), Len(df_calc),
              SeqSum([k \in DOMAIN df_calc |-> df_calc[k].investment]),
              SeqSum([k \in DOMAIN df_calc |-> df_calc[k].benefit]),
              HitCount(df_calc))

\* the statistics the history tab shows, over the settled rows
DisplayStats(df_rows) == DisplaySummary(df_rows, SettledRows(df_rows))

----------------------------------------------------------------------------
(* The batches settled                                                     *)

MaxHistory == 2

Str(t_str) == [is_str |-> TRUE, s |-> t_str]

NonString == [is_str |-> FALSE, s |-> <<>>]

TicketList(items) == [kind |-> "list", items |-> items]

NullTickets == [kind |-> "null", items |-> <<>>]

MissingTickets == [kind |-> "missing", items |-> <<>>]

\* a stored recommendation
Recommendation(race_num, strategy_type, timestamp, tickets) ==
    [place |-> "Seibuen", date |-> "20240101", race_num |-> race_num,
     strategy_type |-> strategy_type, timestamp |-> timestamp, tickets |-> tickets]

\* the tickets of a standard recommendation on cars 1, 2, 3, 4
PlainTickets ==
    TicketList(<<Str(Ticket(Exacta, <<<<"1">>, JoinCars(<<2, 3, 4>>)>>, "->")),
                 Str(Ticket(TrifectaForm, <<<<"1">>, JoinCars(<<2, 3>>),
                                            JoinCars(<<3, 4>>)>>, "-"))>>)

\* the last two digits of two timestamps a second apart: ...:09 and ...:10
Timestamps == {<<0, 9>>, <<1, 0>>}

BatchRecords ==
    { Recommendation(k[1], k[2], ts, tickets) :
        k \in {<<<<"5">>, "standard">>, <<<<"5", "R">>, "standard">>,
               <<<<"5", "R">>, "chaos">>, <<<<"6", "R">>, "standard">>},
        ts \in Timestamps,
        tickets \in {PlainTickets, NullTickets,
                     TicketList(<<PlainTickets.items[1], NonString>>)} }

\* the result rows of a race of four cars: ranks[i] is what the store holds
\* as the finishing position of car i
ResultRows(ranks, kyuhan) ==
    [i \in DOMAIN ranks |-> [car |-> i, rank |-> ranks[i], kyuhan |-> kyuhan]]

FullPayouts ==
    ("2rentan" :> 1200) @@ ("3rentan" :> 5400) @@ ("2renpuku" :> 600)
    @@ ("3renpuku" :> 900) @@ ("wide1" :> 200) @@ ("wide2" :> 300) @@ ("wide3" :> 400)

NoPayouts == [k \in {} |-> 0]

Finished(ranks) == [rows |-> ResultRows(ranks, <<"A", "1">>), payouts |-> FullPayouts]

\* a race of nine cars that finished 5, 2, 9, with the wide payouts 1200 for
\* 2-5, 800 for 2-9 and 600 for 5-9
FinishedWide ==
    [rows |-> ResultRows(<<"", "2", "", "", "1", "", "", "", "3">>, <<"A", "1">>),
     payouts |-> ("wide1" :> 1200) @@ ("wide2" :> 800) @@ ("wide3" :> 600) @@ FullPayouts]

\* the wide ticket boxed over 2, 5, 9 and the trifecta 2 -> 5,9 -> 5,9,4
BoxedWide == Ticket(<<"wide">>, <<JoinCars(<<2, 5, 9>>), JoinCars(<<2, 5, 9>>)>>, "-")

FormationTrifecta ==
    Ticket(Trifecta, <<<<"2">>, JoinCars(<<5, 9>>), JoinCars(<<5, 9, 4>>)>>, "->")

Race5 == <<"Seibuen", "20240101", <<"5", "R">>>>

Race6 == <<"Seibuen", "20240101", <<"6", "R">>>>

\* what the store may hold of race 5: nothing, or result rows with payouts
Race5Results ==
    { Finished(<<"1", "2", "3", "4">>),
      Finished(<<"2", "1", "3", "4">>),
      Finished(<<"3", "4", "1", "2">>),
      Finished(<<"1", "2", "", "">>),
      Finished(<<"shikkaku", "2", "3", "4">>),
      Finished(<<"1", "", "", "">>),
      FinishedWide,
      [Finished(<<"1", "2", "3", "4">>) EXCEPT !.payouts = NoPayouts],
      [Finished(<<"1", "2", "3", "4">>) EXCEPT
          !.rows = ResultRows(<<"1", "2", "3", "4">>, <<"L", "1">>)] }

NoResults == [r \in {} |-> 0]

Stores ==
    {NoResults} \cup {(Race5 :> g) : g \in Race5Results}

\* batches of up to MaxHistory recommendations for races 5 and 6; the store
\* holds the result of race 5 and nothing or only the winner of race 6
RecordBatches ==
    { [history |-> h, results |-> s] :
        h \in UNION {[1..n -> BatchRecords] : n \in 1..MaxHistory},
        s \in { (Race5 :> Finished(<<"1", "2", "3", "4">>)),
                (Race5 :> Finished(<<"1", "2", "3", "4">>))
                   @@ (Race6 :> Finished(<<"1", "", "", "">>)) } }

TicketHeads ==
    {Trifecta, Exacta, <<"3renpuku">>, <<"2renpuku">>, <<"wide">>, <<"tansho">>}

TicketGroups == {<<"1">>, JoinCars(<<1, 2>>), JoinCars(<<2, 3>>), JoinCars(<<3, 3>>)}

\* tickets of two or three groups under every head and separator
WrittenTickets ==
    { Ticket(head, groups, sep) :
        head \in TicketHeads,
        groups \in [1..2 -> TicketGroups] \cup [1..3 -> TicketGroups],
        sep \in {"->", "<->", "=", "-"} }

\* the tickets the generator writes for the cars 1 to 5 with partner 2
GeneratedTickets ==
    UNION { LET gen == ArchetypeTickets(a, <<1, 2, 3, 4, 5>>, 2, <<>>).tickets
            IN {gen[k] : k \in DOMAIN gen} \cup
               {WithBaseExacta(gen, <<1, 2, 3, 4, 5>>)[1]} :
            a \in {"star_makuri", "star_nige_short", "star_btop_short", "snipe",
                   "suji_fix", "suji_lead", "line_breaker", "teppan", "two_strong",
                   "chaos", "standard"} }

\* one recommendation of one ticket for race 5, or one without a ticket
\* list, against everything the store may hold
TicketBatches ==
    { [history |-> <<Recommendation(<<"5", "R">>, "standard", <<1, 0>>, tickets)>>,
       results |-> s] :
        tickets \in {TicketList(<<Str(t)>>) :
                        t \in WrittenTickets \cup GeneratedTickets
                              \cup {BoxedWide, FormationTrifecta}}
                    \cup {MissingTickets},
        s \in Stores }

Batches == RecordBatches \cup TicketBatches

NotRun == [raised |-> "none", df_res |-> <<>>, stats |-> NoStats, df_tickets |-> <<>>]

NoDisplay == [error |-> FALSE, summary |-> DisplayStats(<<>>)]

----------------------------------------------------------------------------
(* The races analysed                                                      *)

MaxRiders == 3

\* What a race card says of one rider: rating (tenths), residency, tactic
\* marks, the four tactic counts and the precomputed top-tactic flags (the
\* set of tactics the rider's flag is 1 for).
Card(pts, jimoto, kyaku, nige, makuri, sashi, B, top) ==
    [pts |-> pts, jimoto |-> jimoto, kyaku |-> kyaku, nige |-> nige,
     makuri |-> makuri, sashi |-> sashi, B |-> B, top |-> top]

Cards ==
    { Card(<<900>>,  FALSE, {},                  0,  0, 0, 0, {}),
      Card(<<950>>,  TRUE,  {"nige"},            10, 0, 0, 8, {"nige"}),
      Card(<<880>>,  FALSE, {"nige"},            3,  1, 0, 2, {}),
      Card(<<1000>>, FALSE, {"makuri"},          1,  6, 1, 0, {"makuri"}),
      Card(<<920>>,  FALSE, {"sashi"},           3,  0, 5, 0, {"sashi"}),
      Card(<<>>,     FALSE, {"sashi", "makuri"}, 3,  2, 2, 0, {}) }

\* A frame row: the card, the line cell and class label, and the columns the
\* engine fills in.
Row(car, card, line, kyuhan) ==
    [car |-> car, pts |-> card.pts, jimoto |-> card.jimoto, kyaku |-> card.kyaku,
     nige |-> card.nige, makuri |-> card.makuri, sashi |-> card.sashi, B |-> card.B,
     is_top_nige |-> "nige" \in card.top, is_top_makuri |-> "makuri" \in card.top,
     is_top_sashi |-> "sashi" \in card.top,
     line |-> line, kyuhan |-> kyuhan,
     base_score |-> 0, ai_score |-> 0, ai_tag |-> <<>>,
     is_b_top |-> FALSE, is_dom_nige |-> FALSE, is_dom_makuri |-> FALSE,
     is_dom_sashi |-> FALSE]

\* The lines of a field of n cars cut after the cars in cuts: consecutive
\* car numbers ride together, e.g. n = 3, cuts = {2} is 12 / 3.
LineGroups(n, cuts) ==
    LET starts == {1} \cup {k + 1 : k \in cuts}
        Nth(g) == CHOOSE x \in starts : Cardinality({y \in starts : y < x}) = g - 1
        EndOf(g) == IF g = Cardinality(starts) THEN n ELSE Nth(g + 1) - 1
    IN [g \in 1..Cardinality(starts) |->
          [k \in 1..(EndOf(g) - Nth(g) + 1) |-> Nth(g) + k - 1]]

\* The line cell of a car: its own line ("own"), or the whole composition
\* separated by blanks ("full").
LineCell(groups, car, style) ==
    IF style = "full" THEN groups
    ELSE LET mine == SelectSeq(groups, LAMBDA g : \E k \in DOMAIN g : g[k] = car)
         IN IF mine = <<>> THEN <<>> ELSE <<mine[1]>>

RawCols == {"car", "name", "pts", "jimoto", "kyaku", "nige", "makuri", "sashi", "B",
            "is_top_nige", "is_top_makuri", "is_top_sashi"}

ClassLabels == { <<"S", "1">>, <<"A", "1">>, <<"A", "3">> }

\* A frame of n riders: cards per car, venue ("" for no venue column), line
\* style ("none" for no line column), class label per car (<<>> for no class
\* column).
Frame(cards, place, groups, style, labels) ==
    [cols |-> RawCols \cup (IF place = "" THEN {} ELSE {"place"})
                      \cup (IF style = "none" THEN {} ELSE {"line"})
                      \cup (IF labels = <<>> THEN {} ELSE {"kyuhan"}),
     place |-> place,
     rows |-> [i \in DOMAIN cards |->
                 Row(i, cards[i],
                     IF style = "none" THEN <<>> ELSE LineCell(groups, i, style),
                     IF labels = <<>> THEN <<"A", "1">> ELSE labels[i])]]

Places == {"", "Seibuen", "Shizuoka", "Toyohashi"}

\* Races that vary the cards: every field of up to MaxRiders riders, every
\* venue, no line column or one line of the whole field.
ScoringRaces ==
    { Frame(cards, place, LineGroups(Len(cards), {}), style, <<>>) :
        cards \in UNION {[1..n -> Cards] : n \in 0..MaxRiders},
        place \in Places, style \in {"none", "own"} }

\* Races that vary the line composition, the class labels, the venue and
\* the first two riders over fields of 3 to MaxField riders.
MaxField == 4

ClassifyCards ==
    { Card(<<900>>,  FALSE, {},         0,  0, 0, 0, {}),
      Card(<<950>>,  TRUE,  {"nige"},   10, 0, 0, 8, {"nige"}),
      Card(<<1150>>, FALSE, {"makuri"}, 1,  6, 1, 0, {"makuri"}) }

LabelSets(n) ==
    {<<>>} \cup {[i \in 1..n |-> c] : c \in ClassLabels}
           \cup {[i \in 1..n |-> IF i = 1 THEN <<"S", "1">> ELSE <<"A", "3">>]}

ClassifyRaces ==
    UNION { { Frame([i \in 1..n |-> IF i = 1 THEN a ELSE IF i = 2 THEN b
                                    ELSE Card(<<900>>, FALSE, {}, 0, 0, 0, 0, {})],
                    place, LineGroups(n, cuts), "own", labels) :
                a \in ClassifyCards, b \in ClassifyCards,
                place \in {"", "Seibuen"},
                cuts \in SUBSET (1..(n - 1)),
                labels \in LabelSets(n) } : n \in 3..MaxField }

\* A field rated by `scores` (tenths) with nothing else known.
BareRace(scores) ==
    [cols |-> {"car", "name", "pts"}, place |-> "",
     rows |-> [i \in DOMAIN scores |->
                 Row(i, Card(<<scores[i]>>, FALSE, {}, 0, 0, 0, 0, {}),
                     <<>>, <<"A", "1">>)]]

\* The worked example: seven riders rated 95, 90, 88, 85, 80, 78, 75.
ExampleRace == BareRace(<<950, 900, 880, 850, 800, 780, 750>>)

\* Seven riders with one clear leader, and a full field of nine evenly
\* rated riders.
SpreadRace == BareRace(<<1200, 1000, 850, 800, 800, 780, 750>>)

EvenRace == BareRace([i \in 1..9 |-> 900 + i])

\* The even field riding in three lines, every line cell holding the whole
\* composition, and the same race card without its rating column.
NineRace ==
    Frame([i \in 1..9 |-> Card(<<900 + i>>, FALSE, {}, 0, 0, 0, 0, {})],
          "Shizuoka", LineGroups(9, {3, 6}), "full", <<>>)

NoRatingRace == [NineRace EXCEPT !.cols = @ \ {"pts"}]

\* no race in the pipeline
NoFrame == [cols |-> {}, place |-> "", rows |-> <<>>]

FixtureRaces == {ExampleRace, SpreadRace, EvenRace, NineRace, NoRatingRace}

\* A rider who leads three plain riders in every tactic count and in the
\* back-position count, at every venue.
StackedRaces ==
    { Frame(<<Card(<<980>>, TRUE, {"nige"}, 8, 7, 6, 5, {"nige"}),
              Card(<<900>>, FALSE, {}, 0, 0, 0, 0, {}),
              Card(<<900>>, FALSE, {"sashi"}, 1, 2, 0, 0, {})>>,
            place, LineGroups(3, {}), "own", <<>>) : place \in Places }

\* Three riders without tactic marks, line or venue: the leading rider's
\* top-tactic flags range over every combination, the leader is first or
\* second in the frame or shares the top rating with the rider before, and
\* the class labels range over every tier.
LiftRaces ==
    { Frame([i \in 1..3 |->
               Card(<<pts[i]>>, FALSE, {}, 0, 0, 0, 0,
                    IF pts[i] = 1000 /\ (i = 1 \/ pts[1] < 1000) THEN top
                    ELSE {"nige", "makuri", "sashi"})],
            "", LineGroups(3, {}), "none", labels) :
        pts \in {<<1000, 950, 900>>, <<950, 1000, 900>>, <<1000, 1000, 900>>},
        top \in SUBSET {"nige", "makuri", "sashi"},
        labels \in LabelSets(3) }

\* Five plain riders rated 100.0, 95.0 or 70.0, 90.0, 90.0, 90.0, riding
\* 12 / 3 / 4 / 5 or 12 / 345, under every labelling.
BreakerRaces ==
    { Frame([i \in 1..5 |->
               Card(<<IF i = 1 THEN 1000 ELSE IF i = 2 THEN second ELSE 900>>,
                    FALSE, {}, 0, 0, 0, 0, {})],
            "", LineGroups(5, cuts), "own", labels) :
        second \in {950, 700}, cuts \in {{2, 3, 4}, {2}},
        labels \in LabelSets(5) }

\* The calls analysed: the frame and the override list.  The application
\* passes no override list; a direct caller may.
Calls ==
    {[df |-> d, ai |-> <<>>] : d \in ScoringRaces \cup FixtureRaces \cup StackedRaces
                                               \cup LiftRaces \cup BreakerRaces}
    \cup {[df |-> d, ai |-> a] : d \in ClassifyRaces, a \in {<<>>, <<1>>, <<2, 1>>}}

Init ==
    /\ \E call \in Calls : df = call.df /\ ai_match = call.ai
    /\ pc = "raw"
    /\ raised = "none"
    /\ strategy = NoStrategy
    /\ locals = NoLocals
    /\ history_data = <<>>
    /\ race_result = NoResults
    /\ returned = NotRun
    /\ shown = NoDisplay
    /\ hpc = "idle"
    /\ runs = 0
    /\ chunk_fails = {}

\* calculate_ai_score, first half
ClassicScore ==
    /\ pc = "raw"
    /\ df' = calculate_classic_score(df)
    /\ pc' = "classic"
    /\ UNCHANGED <<raised, strategy, ai_match, locals, settlement_vars>>

\* calculate_ai_score, second half
V3Logic ==
    /\ pc = "classic"
    /\ LET r == apply_v3_logic(df)
       IN /\ df' = r.df
          /\ raised' = r.raised
          /\ pc' = IF r.raised = "none" THEN "scored" ELSE "score_raised"
    /\ UNCHANGED <<strategy, ai_match, locals, settlement_vars>>

\* generate_betting_strategy on the scored frame
Strategy ==
    /\ pc = "scored"
    /\ LET r == generate_betting_strategy(df, ai_match)
       IN /\ raised' = r.raised
          /\ strategy' = r.result
          /\ locals' = r.locals
          /\ pc' = IF r.raised = "none" THEN "done" ELSE "strategy_raised"
    /\ UNCHANGED <<df, ai_match, settlement_vars>>

Next == ClassicScore \/ V3Logic \/ Strategy

Spec == Init /\ [][Next]_vars

----------------------------------------------------------------------------
(* Properties of the per-race pipeline                                     *)

Archetypes ==
    {"snipe", "star_makuri", "star_nige_short", "star_btop_short", "suji_fix",
     "suji_lead", "line_breaker", "skip", "teppan", "two_strong", "chaos",
     "standard"}

StrategyRan == pc \in {"done", "strategy_raised"}

\* C1: classification is total: on a table of at least 3 scored riders
\* generate_betting_strategy returns normally a result that names one
\* archetype of the fixed set, with a reason and a confidence tier.
C1_ClassificationTotal ==
    (StrategyRan /\ Len(df.rows) >= 3) =>
        /\ raised = "none"
        /\ strategy.type \in Archetypes
        /\ strategy.reason # ""
        /\ strategy.confidence_level # Unbound

\* C2: once scored, every rider's score is at least the base rating minus
\* 1.0 (10 tenths), after the classic rules and after the V3 overlay.
C2_ScoreFloor ==
    (pc \in {"classic", "scored", "done", "strategy_raised"}
     /\ "base_score" \in df.cols) =>
        \A i \in DOMAIN df.rows :
            df.rows[i].ai_score >= df.rows[i].base_score - 10

\* a rider whose only adjustment is the contested-escape penalty: the floor
\* is met exactly
C2_Witness ==
    /\ pc = "scored"
    /\ \E i \in DOMAIN df.rows :
          /\ df.rows[i].ai_score = df.rows[i].base_score - 10
          /\ df.rows[i].ai_tag = <<Tag("war:sashi_penalty", NigeWarPenalty)>>

IsExampleRace ==
    /\ df.cols \cap RawCols = {"car", "name", "pts"}
    /\ {"place", "line", "kyuhan"} \cap df.cols = {}
    /\ [i \in DOMAIN df.rows |-> df.rows[i].pts] =
          [i \in 1..7 |-> <<ExampleRace.rows[i].pts[1]>>]

ScoresUnchanged ==
    \A i \in DOMAIN df.rows :
        df.rows[i].ai_score = df.rows[i].pts[1] /\ df.rows[i].ai_tag = <<>>

\* C4 as stated: the example race of 7 riders rated 95, 90, 88, 85, 80, 78,
\* 75 keeps its scores and is classified STANDARD.
C4_ExampleStandard ==
    (IsExampleRace /\ StrategyRan) =>
        ScoresUnchanged /\ raised = "none" /\ strategy.type = "standard"

\* C4 amended: the example race keeps its scores and is classified CHAOS:
\* the scores are raw, so the win rates are their shares of the total
\* (16.1, 15.2, 14.9 percent) and the top is less than 5.0 ahead of the third.
C4_ExampleChaos ==
    (IsExampleRace /\ StrategyRan) =>
        ScoresUnchanged /\ raised = "none" /\ strategy.type = "chaos"

C4_Witness == IsExampleRace /\ pc = "done" /\ ScoresUnchanged

\* C9: fewer than 3 scored riders give the explicit insufficient-data
\* result with no tickets, and no exception.
C9_InsufficientData ==
    (StrategyRan /\ Len(df.rows) < 3) =>
        /\ raised = "none"
        /\ strategy.type = "error"
        /\ strategy.reason # ""
        /\ strategy.tickets = <<>>

C9_Witness == pc = "done" /\ Len(df.rows) = 2 /\ strategy.type = "error"

\* C10: the scoring engine never raises on missing data: also without the
\* rating column it returns a score and a tag list for every rider.
C10_ScoringNeverRaises ==
    /\ pc # "score_raised"
    /\ pc \in {"scored", "done", "strategy_raised"} =>
          {"ai_score", "ai_tag"} \subseteq df.cols

----------------------------------------------------------------------------
(* Settlement of a stored batch, as the history tab runs it                *)

SettleInit ==
    /\ \E b \in Batches :
          /\ history_data = b.history
          /\ race_result = b.results
          /\ chunk_fails \in SUBSET DOMAIN Chunks(RidsList(TargetRids(b.history)))
    /\ hpc = "stored"
    /\ runs = 0
    /\ returned = NotRun
    /\ shown = NoDisplay
    /\ df = NoFrame
    /\ pc = "idle"
    /\ raised = "none"
    /\ strategy = NoStrategy
    /\ ai_match = <<>>
    /\ locals = NoLocals

\* the history tab runs the analysis on every rerun of the page
MaxRuns == 2

\* the loop writing into the records themselves instead of a copy: the
\* normalised race number lands in the caller's list
RecordsAfterInPlace(history) ==
    [k \in DOMAIN history |->
        [history[k] EXCEPT !.race_num = RaceNumStr(history[k].race_num)]]

\* row = h.copy(): the loop writes race_num, the result fields and the
\* status into the copy, and sorted() builds a new list; the records of the
\* caller's list are read only
RecordsAfter(history) == [k \in DOMAIN history |-> history[k]]

\* logic_v2.analyze_prediction_history(history), the first time and again on
\* the list the first call was given
Analyze ==
    /\ hpc \in {"stored", "shown"}
    /\ runs < MaxRuns
    /\ returned' = analyze_prediction_history(
                       history_data, LoadChunks(history_data, race_result, chunk_fails))
    /\ history_data' = RecordsAfter(history_data)
    /\ hpc' = "analyzed"
    /\ runs' = runs + 1
    /\ UNCHANGED <<race_result, shown, chunk_fails, pipeline_vars>>

\* the history tab after the call: an exception becomes an error message
\* and an empty table; a table is summarised over its settled rows
HistoryTab ==
    /\ hpc = "analyzed"
    /\ shown' = IF returned.raised # "none" THEN [NoDisplay EXCEPT !.error = TRUE]
                ELSE [error |-> FALSE, summary |-> DisplayStats(returned.df_res)]
    /\ hpc' = "shown"
    /\ UNCHANGED <<history_data, race_result, returned, runs, chunk_fails, pipeline_vars>>

SettleNext == Analyze \/ HistoryTab

SettleSpec == SettleInit /\ [][SettleNext]_vars

----------------------------------------------------------------------------
(* Properties of settlement                                                *)

Analyzed == hpc \in {"analyzed", "shown"}

RowKey(row) == <<row.place, row.date, row.race_num, row.strategy_type>>

RowsOfKey(key) == {k \in DOMAIN returned.df_res : RowKey(returned.df_res[k]) = key}

IsSettledRow(row) == row.hit_detail \in {"hit", "miss"}

DistinctCombinations(t_str) ==
    {Combinations(t_str)[k] : k \in DOMAIN Combinations(t_str)}

\* C3: every settled ticket is charged a positive multiple of 100 that is
\* 100 times the number of distinct combinations the ticket expands to.
C3_StakeIsDistinctCombinations ==
    \A k \in DOMAIN returned.df_tickets :
        LET row == returned.df_tickets[k]
        IN /\ row.invest > 0
           /\ row.invest % 100 = 0
           /\ row.invest = 100 * Cardinality(DistinctCombinations(row.t_str))

\* C5: a malformed record (null ticket list, or an entry that is no string)
\* does not fail the batch: the call returns, every key of the batch has its
\* row, and the row of a malformed record carries an error status.
C5_MalformedRecordIsolated ==
    Analyzed =>
        /\ returned.raised = "none"
        /\ \A i \in DOMAIN history_data : RowsOfKey(DedupKey(history_data[i])) # {}
        /\ \A k \in DOMAIN returned.df_res :
              (returned.df_res[k].tickets.kind = "null"
               \/ \E j \in DOMAIN returned.df_res[k].tickets.items :
                     ~returned.df_res[k].tickets.items[j].is_str)
              => returned.df_res[k].status = "error"

\* C6: the returned statistics leave pending races out of both
\* denominators: hit_rate is hits over settled races and recovery_rate is
\* return over stake of the settled races (0 where there is none).
C6_PendingOutOfDenominators ==
    (Analyzed /\ returned.stats.present) =>
        LET rows == returned.df_res
            settled == SelectSeq(rows, IsSettledRow)
            hits == HitCount(settled)
            stake == SeqSum([k \in DOMAIN settled |-> settled[k].investment])
            back == SeqSum([k \in DOMAIN settled |-> settled[k].benefit])
            hit_rate == returned.stats.hit_rate
            recovery_rate == returned.stats.recovery_rate
        IN /\ IF settled = <<>> THEN hit_rate.num = 0
              ELSE hit_rate.num * Len(settled) = 100 * hits * hit_rate.den
           /\ IF stake = 0 THEN recovery_rate.num = 0
              ELSE recovery_rate.num * stake = 100 * back * recovery_rate.den

CarsRanked(rid, n) ==
    IF rid \notin DOMAIN race_result THEN {}
    ELSE {<<CarStr(race_result[rid].rows[i].car)>> :
             i \in {j \in DOMAIN race_result[rid].rows :
                      clean_rank(race_result[rid].rows[j].rank) = n}}

\* C7: a race is pending (no stake, no return, no ticket rows) exactly when
\* its result is absent or lacks the 1st or the 2nd finisher; in a settled
\* race the hit tests use the cars that finished 1st and 2nd.
C7_PendingIffIncomplete ==
    Analyzed =>
        /\ \A k \in DOMAIN returned.df_res :
              LET row == returned.df_res[k]
                  rid == <<row.place, row.date, row.race_num>>
                  incomplete == CarsRanked(rid, 1) = {} \/ CarsRanked(rid, 2) = {}
              IN /\ incomplete <=> ~IsSettledRow(row)
                 /\ ~IsSettledRow(row) => row.investment = 0 /\ row.benefit = 0
                 /\ IsSettledRow(row) =>
                       /\ row.result_top3[1] \in CarsRanked(rid, 1)
                       /\ row.result_top3[2] \in CarsRanked(rid, 2)
        /\ (\A k \in DOMAIN returned.df_res : ~IsSettledRow(returned.df_res[k]))
              => returned.df_tickets = <<>>

----------------------------------------------------------------------------
(* Properties of the classifier and of the ticket generator                *)

\* the top-scored rider of the frame the strategy ran on
TopRider == DfLogic(df)[1]

ShortTrack == BankSpecs(df)[1] < ShortStraight

\* some override car differs from the top-scored car
OverrideDiffers == \E i \in DOMAIN ai_match : ai_match[i] # TopRider.car

StarArchetypes == {"star_makuri", "star_nige_short", "star_btop_short"}

LineTrust == {"suji_fix", "suji_lead", "line_breaker"}

ScoreGap == {"skip", "teppan", "two_strong", "chaos", "standard"}

Classified == StrategyRan /\ Len(df.rows) >= 3

\* C11: when the classifier selects SKIP, the ticket list the call built
\* is empty: no archetype ticket and no base exacta.
C11_SkipNoTickets ==
    (Classified /\ locals.race_type = "skip") =>
        /\ strategy.tickets = <<>>
        /\ locals.rec_tickets = <<>>

\* the car number an entry of a ticket names: its first digit (no car for
\* an entry without one)
EntryCar(x) ==
    IF SelectSeq(x, IsDigit) = <<>> THEN NoCar ELSE CarInt(SelectSeq(x, IsDigit)[1])

\* the ordered pairs of car numbers an exacta ticket is staked on
StakedPairs(t_str) ==
    {<<EntryCar(Combinations(t_str)[k][1]), EntryCar(Combinations(t_str)[k][2])>> :
        k \in DOMAIN Combinations(t_str)}

ExactaTickets(tickets) == {k \in DOMAIN tickets : TicketType(tickets[k]) = "2shatan"}

\* (c1, x) for the riders x ranked 2nd to 4th by score
BasePairs ==
    {<<TopRider.car, CarAt(DfLogic(df), k)>> : k \in 2..4} \ {<<TopRider.car, NoCar>>}

\* C12: in every recommendation returned, the base exacta (the first ticket,
\* when it is an exacta) is staked only on pairs c1 -> x, x among c2, c3, c4,
\* and no ordered pair is staked by two exacta tickets.
C12_BaseExactaDeduplicated ==
    (pc = "done" /\ strategy.type \in Archetypes) =>
        /\ \A i \in ExactaTickets(strategy.tickets) :
              \A j \in ExactaTickets(strategy.tickets) :
                 i # j => StakedPairs(strategy.tickets[i])
                          \cap StakedPairs(strategy.tickets[j]) = {}
        /\ 1 \in ExactaTickets(strategy.tickets) =>
              StakedPairs(strategy.tickets[1]) \subseteq BasePairs

\* C12: a recommendation whose archetype exacta covers one base pair and
\* whose base exacta holds the others
C12_Witness ==
    /\ pc = "done"
    /\ strategy.type \in StarArchetypes
    /\ 1 \in ExactaTickets(strategy.tickets)
    /\ StakedPairs(strategy.tickets[1]) # {}
    /\ \E j \in ExactaTickets(strategy.tickets) :
          j > 1 /\ StakedPairs(strategy.tickets[j]) \cap BasePairs # {}

\* C18: the rules are tried in priority order and the first that matches
\* decides: SNIPE, then the three star archetypes, then the line-trust
\* archetypes, then the score-gap archetypes.
C18_PriorityOrder ==
    Classified =>
        /\ locals.race_type = "snipe" <=> OverrideDiffers
        /\ locals.race_type = "star_makuri" <=>
              ~OverrideDiffers /\ TopRider.is_dom_makuri
        /\ locals.race_type = "star_nige_short" <=>
              /\ ~OverrideDiffers /\ ~TopRider.is_dom_makuri
              /\ TopRider.is_dom_nige /\ ShortTrack
        /\ locals.race_type = "star_btop_short" <=>
              /\ ~OverrideDiffers /\ ~TopRider.is_dom_makuri
              /\ ~(TopRider.is_dom_nige /\ ShortTrack)
              /\ TopRider.is_b_top /\ ShortTrack
        /\ locals.race_type \in {"snipe"} \cup StarArchetypes \cup LineTrust \cup ScoreGap
        /\ locals.race_type \in ScoreGap =>
              SujiMode(StrategyRaceClass(df), LineCounts(df), BankSpecs(df)[1],
                       PartnerGap(df, TopRider)) = "none"

\* C18: an override on a race whose top rider is chase-jump dominant on a
\* short track: SNIPE is selected all the same
C18_Witness ==
    /\ Classified
    /\ locals.race_type = "snipe"
    /\ TopRider.is_dom_makuri
    /\ ShortTrack

----------------------------------------------------------------------------
(* Properties of the V3 overlay                                            *)

V3Ran == pc \in {"scored", "done", "strategy_raised"}

HasTag(r, names) == \E k \in DOMAIN r.ai_tag : r.ai_tag[k].t \in names

DominanceTags == {"dom_makuri(SS)", "dom_nige:short(S)", "dom_nige", "dom_sashi"}

\* the count of rider i for a tactic, and the highest count among the others
Count(i, col) == Val(df, df.rows[i], col)

OthersMax(i, col) ==
    SeqMax([k \in 1..Len(df.rows) |-> IF k = i THEN 0 ELSE Count(k, col)])

\* at least 3 riders with an escape count of 3 or more
Contested == Cardinality({i \in DOMAIN df.rows : Count(i, "nige") >= 3}) >= 3

\* C19: in a contested-escape race +2.0 goes to the one rider whose escape
\* count is above every other's, and only if that rider has no dominance
\* bonus; -1.0 goes to every closer-tagged rider that is not closer-dominant;
\* in any other race neither adjustment is applied.
C19_ContestedEscape ==
    V3Ran =>
        \A i \in DOMAIN df.rows :
            /\ HasTag(df.rows[i], {"war:nige_boost"}) <=>
                  /\ Contested
                  /\ Count(i, "nige") > OthersMax(i, "nige")
                  /\ ~HasTag(df.rows[i], DominanceTags)
            /\ HasTag(df.rows[i], {"war:sashi_penalty"}) <=>
                  /\ Contested
                  /\ "kyaku" \in df.cols /\ "sashi" \in df.rows[i].kyaku
                  /\ ~df.rows[i].is_dom_sashi

DomFlag(r, col) ==
    IF col = "nige" THEN r.is_dom_nige
    ELSE IF col = "makuri" THEN r.is_dom_makuri
    ELSE r.is_dom_sashi

\* the rule as stated: the race maximum, at least 5, and ahead of the
\* second-highest count by 5 or more or by a ratio of 3.0 or more
DominantAsStated(i, col) ==
    /\ Len(df.rows) >= 2
    /\ \A k \in DOMAIN df.rows : Count(k, col) <= Count(i, col)
    /\ Count(i, col) >= 5
    /\ \/ Count(i, col) - OthersMax(i, col) >= 5
       \/ (OthersMax(i, col) > 0 /\ Count(i, col) >= 3 * OthersMax(i, col))

\* C20: a rider is flagged dominant in a tactic exactly when the stated rule
\* holds; at most one rider of a race is flagged per tactic, and riders tied
\* for the top count are not flagged.
C20_Dominance ==
    V3Ran =>
        \A col \in {"nige", "makuri", "sashi"} :
            /\ \A i \in DOMAIN df.rows :
                  DomFlag(df.rows[i], col) <=> DominantAsStated(i, col)
            /\ Cardinality({i \in DOMAIN df.rows : DomFlag(df.rows[i], col)}) <= 1
            /\ \A i \in DOMAIN df.rows :
                  Count(i, col) = OthersMax(i, col) => ~DomFlag(df.rows[i], col)

\* C20: a rider flagged by the ratio rule alone (6 against 2), and in the
\* same race two riders tied for the top count of another tactic
C20_Witness ==
    /\ V3Ran
    /\ \E i \in DOMAIN df.rows :
          /\ df.rows[i].is_dom_makuri
          /\ Count(i, "makuri") - OthersMax(i, "makuri") < 5
    /\ \E i \in DOMAIN df.rows :
          /\ Count(i, "nige") > 0
          /\ Count(i, "nige") = OthersMax(i, "nige")
          /\ \A k \in DOMAIN df.rows : Count(k, "nige") <= Count(i, "nige")

----------------------------------------------------------------------------
(* Properties of settlement: expansion, hit tests and totals               *)

\* the ticket rows of result row r: a settled row has one per ticket of its
\* record, in order, after the ticket rows of the rows before it
TicketCount(row) == IF IsSettledRow(row) THEN Len(row.tickets.items) ELSE 0

TicketsBefore(r) ==
    SeqSum([k \in 1..(r - 1) |-> TicketCount(returned.df_res[k])])

TicketsOf(r) ==
    {TicketsBefore(r) + j : j \in 1..TicketCount(returned.df_res[r])}

RowRace(row) == <<row.place, row.date, row.race_num>>

\* the car the store ranks n-th in the race, as a ticket names it
Placed(rid, n) == CHOOSE c \in CarsRanked(rid, n) : TRUE

\* the store ranks one car 1st, one 2nd (and one 3rd)
HasTop2(rid) ==
    Cardinality(CarsRanked(rid, 1)) = 1 /\ Cardinality(CarsRanked(rid, 2)) = 1

HasTop3(rid) == HasTop2(rid) /\ Cardinality(CarsRanked(rid, 3)) = 1

\* the entries of the groups of a ticket, as sets
GroupSet(t_str, n) ==
    {Groups(Parts(t_str))[n][k] : k \in DOMAIN Groups(Parts(t_str))[n]}

\* the official payout of a pair of placed cars: the store lists the three
\* wide payouts in the order of the pairs sorted by car number
OfficialWide(rid, a, b) ==
    LET others == {EntryCar(Placed(rid, n)) : n \in 1..3} \ {EntryCar(a), EntryCar(b)}
        third == CHOOSE c \in others : TRUE
        col == IF third > EntryCar(a) /\ third > EntryCar(b) THEN "wide1"
               ELSE IF third < EntryCar(a) /\ third < EntryCar(b) THEN "wide3"
               ELSE "wide2"
    IN race_result[rid].payouts[col]

\* what a wide ticket of groups g1, g2 is owed for the placed pair {a, b}
WideOwed(t_str, rid, a, b) ==
    IF \E x \in GroupSet(t_str, 1) : \E y \in GroupSet(t_str, 2) :
          x # y /\ {x, y} = {a, b}
    THEN OfficialWide(rid, a, b) ELSE 0

WideReturn(t_str, rid) ==
    WideOwed(t_str, rid, Placed(rid, 1), Placed(rid, 2))
    + WideOwed(t_str, rid, Placed(rid, 1), Placed(rid, 3))
    + WideOwed(t_str, rid, Placed(rid, 2), Placed(rid, 3))

WideRowOk(t, rid) ==
    (t.type = "wide" /\ Len(Parts(t.t_str)) = 2 /\ HasTop3(rid)) =>
        /\ t.return = WideReturn(t.t_str, rid)
        /\ t.is_hit = 1 <=> t.return > 0
        /\ (t.t_str = BoxedWide /\ race_result[rid] = FinishedWide) => t.return = 2600

\* C13: a wide ticket of two groups, in a race with its first three placed,
\* returns the sum of the official payouts of the distinct pairs it covers
\* among the three pairs of the placed cars, each once; the ticket boxed over
\* 2, 5, 9 returns 2600 on the finish 5, 2, 9 with 1200, 800 and 600.
C13_WideReturn ==
    (Analyzed /\ returned.raised = "none") =>
        \A r \in DOMAIN returned.df_res :
            \A k \in TicketsOf(r) :
                WideRowOk(returned.df_tickets[k], RowRace(returned.df_res[r]))

C13_Witness ==
    /\ Analyzed
    /\ race_result = (Race5 :> FinishedWide)
    /\ \E k \in DOMAIN returned.df_tickets :
          /\ returned.df_tickets[k].t_str = BoxedWide
          /\ returned.df_tickets[k].return = 2600
          /\ returned.df_tickets[k].invest = 300

\* the ordered triples of pairwise distinct entries, one from each group
Triples(t_str) ==
    {tr \in GroupSet(t_str, 1) \X GroupSet(t_str, 2) \X GroupSet(t_str, 3) :
        tr[1] # tr[2] /\ tr[1] # tr[3] /\ tr[2] # tr[3]}

TrifectaRowOk(t) ==
    /\ (t.type = "3rentan" /\ Len(Parts(t.t_str)) = 3) =>
          DistinctCombinations(t.t_str) = Triples(t.t_str)
    /\ t.t_str = FormationTrifecta =>
          /\ DistinctCombinations(t.t_str) =
                {<<<<"2">>, <<"5">>, <<"9">>>>, <<<<"2">>, <<"5">>, <<"4">>>>,
                 <<<<"2">>, <<"9">>, <<"5">>>>, <<<<"2">>, <<"9">>, <<"4">>>>}
          /\ t.invest = 400

\* C14: a trifecta ticket of three groups expands to exactly the ordered
\* triples of pairwise distinct cars, one from each group; the ticket
\* 2 -> 5,9 -> 5,9,4 expands to 2-5-9, 2-5-4, 2-9-5, 2-9-4 and is staked 400.
C14_TrifectaExpansion ==
    (Analyzed /\ returned.raised = "none") =>
        \A k \in DOMAIN returned.df_tickets : TrifectaRowOk(returned.df_tickets[k])

C14_Witness ==
    /\ Analyzed
    /\ \E k \in DOMAIN returned.df_tickets :
          /\ returned.df_tickets[k].t_str = FormationTrifecta
          /\ returned.df_tickets[k].invest = 400

\* the official payout of a bet kind: the store holds the exacta payout in
\* its "2rentan" column
Official(rid, kind) ==
    race_result[rid].payouts[IF kind = "2shatan" THEN "2rentan" ELSE kind]

\* the combinations of a ticket as car numbers: ordered ones as tuples,
\* unordered ones as sets
CarCombinations(t_str) ==
    {IF DOMAIN cm = 1..Len(cm)
     THEN [i \in DOMAIN cm |-> EntryCar(cm[i])]
     ELSE {EntryCar(x) : x \in cm} : cm \in DistinctCombinations(t_str)}

PlacedCar(rid, n) == EntryCar(Placed(rid, n))

\* the hit of a ticket as its kind prescribes, from the cars placed
HitAsPrescribed(t, rid) ==
    IF t.type = "2shatan"
    THEN <<PlacedCar(rid, 1), PlacedCar(rid, 2)>> \in CarCombinations(t.t_str)
    ELSE IF t.type = "2renpuku"
    THEN {PlacedCar(rid, 1), PlacedCar(rid, 2)} \in CarCombinations(t.t_str)
    ELSE IF t.type = "3rentan"
    THEN /\ HasTop3(rid)
         /\ <<PlacedCar(rid, 1), PlacedCar(rid, 2), PlacedCar(rid, 3)>>
               \in CarCombinations(t.t_str)
    ELSE /\ HasTop3(rid)
         /\ {PlacedCar(rid, 1), PlacedCar(rid, 2), PlacedCar(rid, 3)}
               \in CarCombinations(t.t_str)

HitRowOk(t, rid) ==
    (t.type \in {"2shatan", "2renpuku", "3rentan", "3renpuku"} /\ HasTop2(rid)) =>
        /\ t.is_hit = 1 <=> HitAsPrescribed(t, rid)
        /\ t.return = IF HitAsPrescribed(t, rid) THEN Official(rid, t.type) ELSE 0

\* C15: in a settled race whose 1st and 2nd are placed, an exacta hits iff
\* one of the combinations of cars it names is (1st, 2nd) in order, a
\* trifecta iff one is (1st, 2nd, 3rd), a quinella / trio iff one is the set
\* {1st, 2nd} / {1st, 2nd, 3rd}; a hit is credited the official payout of its
\* kind once.
C15_HitByKind ==
    (Analyzed /\ returned.raised = "none") =>
        \A r \in DOMAIN returned.df_res :
            \A k \in TicketsOf(r) :
                HitRowOk(returned.df_tickets[k], RowRace(returned.df_res[r]))

SumOver(tickets, from, n, field) ==
    SeqSum([j \in 1..n |-> tickets[from + j][field]])

RaceRowOk(row, tickets, from) ==
    /\ row.is_hit <=> row.benefit > 0
    /\ row.balance = row.benefit - row.investment
    /\ row.investment = SumOver(tickets, from, TicketCount(row), "invest")
    /\ row.benefit = SumOver(tickets, from, TicketCount(row), "return")
    /\ \A j \in 1..TicketCount(row) :
          tickets[from + j].t_str = row.tickets.items[j].s

\* C16: the investment of a race is the sum of the stakes of its tickets,
\* its return the sum of their returns, it is a hit iff the return is above
\* 0, and the batch totals are the sums over all ticket rows.
C16_Aggregation ==
    (Analyzed /\ returned.raised = "none") =>
        /\ \A r \in DOMAIN returned.df_res :
              RaceRowOk(returned.df_res[r], returned.df_tickets, TicketsBefore(r))
        /\ Len(returned.df_tickets) = TicketsBefore(Len(returned.df_res) + 1)
        /\ returned.stats.present =>
              /\ returned.stats.total_invest =
                    SumOver(returned.df_tickets, 0, Len(returned.df_tickets), "invest")
              /\ returned.stats.total_return =
                    SumOver(returned.df_tickets, 0, Len(returned.df_tickets), "return")

\* C16: two settled races of two tickets each, with a return
C16_Witness ==
    /\ Analyzed
    /\ returned.raised = "none"
    /\ Len(returned.df_res) = 2
    /\ \A r \in DOMAIN returned.df_res : IsSettledRow(returned.df_res[r])
    /\ Len(returned.df_tickets) = 4
    /\ returned.stats.total_return > 0
    /\ returned.stats.total_invest > returned.df_res[1].investment

----------------------------------------------------------------------------
(* Properties of the scoring rules: stacking, class-tier lift             *)

\* the dominance and back-position bonuses the flags of row r stand for on
\* the track of frame d, every one counted
StatedBonus(d, r) ==
    LET short == BankSpecs(d)[1] < ShortStraight
        long == BankSpecs(d)[1] > LongStraight
    IN (IF r.is_b_top
        THEN (IF short THEN BTopShort ELSE IF long THEN BTopLong ELSE BTopNeutral)
        ELSE 0)
       + (IF r.is_dom_makuri THEN DomMakuriBonus ELSE 0)
       + (IF r.is_dom_nige
          THEN (IF short THEN DomNigeShortBonus ELSE DomNigeBonus) ELSE 0)
       + (IF r.is_dom_sashi THEN DomSashiBonus ELSE 0)

\* the contested-escape adjustments row r was given
WarAdjust(r) ==
    SeqSum([k \in DOMAIN r.ai_tag |->
              IF r.ai_tag[k].t \in {"war:nige_boost", "war:sashi_penalty"}
              THEN r.ai_tag[k].v ELSE 0])

\* C21: the V3 overlay adds to every rider's score the sum of all the
\* bonuses the rider qualifies for: the back-position-leader bonus and one
\* dominance bonus per tactic the rider is dominant in (chase-jump +6.0,
\* escape +5.0 on a short track and +3.0 otherwise, closer +2.0), besides
\* the contested-escape adjustments.
C21_BonusesStack ==
    [][(pc = "classic" /\ pc' = "scored") =>
          \A i \in DOMAIN df.rows :
              df'.rows[i].ai_score =
                  df.rows[i].ai_score + StatedBonus(df', df'.rows[i])
                                      + WarAdjust(df'.rows[i])]_vars

\* the class-tier lift tags of row r
LiftTags(r) ==
    SelectSeq(r.ai_tag,
              LAMBDA g : g.t \in {"A3_lift_nige", "A3_lift_makuri", "A_lift_nige",
                                  "A_lift_makuri", "S_lift_nige", "S_lift_sashi",
                                  "A3_lift", "A_lift", "S_lift"})

ClassicRan == pc # "raw" /\ "ai_tag" \in df.cols /\ df.rows # <<>>

\* the lift as stated for a tier and the three flags of the top rider: the
\* largest of the applicable amounts, 0 if none applies
StatedLift(tier, r) ==
    IF tier = "A3" THEN (IF r.is_top_nige \/ r.is_top_makuri THEN 40 ELSE 0)
    ELSE IF tier = "A"
    THEN (IF r.is_top_nige THEN 25 ELSE IF r.is_top_makuri THEN 20 ELSE 0)
    ELSE (IF r.is_top_nige THEN 15 ELSE IF r.is_top_sashi THEN 5 ELSE 0)

\* C22: at most one rider of a race carries a class-tier lift; that rider
\* has the highest base rating of the race; the lift is one amount, the
\* largest of those applicable to the rider's flags in the race's tier
\* (rookie 4.0; first tier 2.5 / 2.0; elite 1.5 / 0.5); and a top rider
\* without a matching flag leaves the race without a lift.
C22_ClassLift ==
    ClassicRan =>
        /\ Cardinality({i \in DOMAIN df.rows : LiftTags(df.rows[i]) # <<>>}) <= 1
        /\ \A i \in DOMAIN df.rows :
              LiftTags(df.rows[i]) # <<>> =>
                 /\ \A j \in DOMAIN df.rows :
                       df.rows[j].base_score <= df.rows[i].base_score
                 /\ Len(LiftTags(df.rows[i])) = 1
                 /\ LiftTags(df.rows[i])[1].v =
                       StatedLift(ScoreRaceClass(df), df.rows[i])
        /\ (\A i \in DOMAIN df.rows : LiftTags(df.rows[i]) = <<>>) <=>
              StatedLift(ScoreRaceClass(df), df.rows[IdxMaxBase(df.rows)]) = 0

\* C22: a first-tier race whose top-rated rider is both top-escape and
\* top-chase-jump and is lifted by 2.5, while another rider of the same
\* rating carries flags and no lift
C22_Witness ==
    /\ ClassicRan
    /\ ScoreRaceClass(df) = "A"
    /\ \E i \in DOMAIN df.rows :
          /\ df.rows[i].is_top_nige /\ df.rows[i].is_top_makuri
          /\ LiftTags(df.rows[i]) # <<>>
          /\ LiftTags(df.rows[i])[1].v = 25
          /\ \E j \in DOMAIN df.rows :
                /\ j # i /\ df.rows[j].base_score = df.rows[i].base_score
                /\ df.rows[j].is_top_nige /\ LiftTags(df.rows[j]) = <<>>

----------------------------------------------------------------------------
(* Properties of the line-trust archetypes                                 *)

\* the cars of the line rider r rides in, by the line cell of r
OwnLine(d, r) ==
    IF "line" \notin d.cols THEN {}
    ELSE UNION {{r.line[g][k] : k \in DOMAIN r.line[g]} :
                  g \in {h \in DOMAIN r.line :
                            \E k \in DOMAIN r.line[h] : r.line[h][k] = r.car}}

\* the lines of the race, each the set of its cars
RaceLines(d) == {OwnLine(d, d.rows[i]) : i \in DOMAIN d.rows} \ {{}}

HasLineOf(d, n) == \E l \in RaceLines(d) : Cardinality(l) >= n

\* the riders of the top rider's line other than the top rider
LinePartners ==
    {i \in DOMAIN df.rows : /\ df.rows[i].car \in OwnLine(df, TopRider)
                            /\ df.rows[i].car # TopRider.car}

\* the gap between the top rider and the strongest line partner is at most
\* x (tenths); false for a top rider without a line partner
GapAtMost(x) ==
    /\ LinePartners # {}
    /\ \E i \in LinePartners :
          /\ \A j \in LinePartners : df.rows[j].base_score <= df.rows[i].base_score
          /\ Abs(TopRider.base_score - df.rows[i].base_score) <= x

GapAbove(x) == LinePartners # {} /\ ~GapAtMost(x)

Tier == StrategyRaceClass(df)

\* C23: SUJI_FIX is selected only for a rookie-tier race whose longest line
\* has 4 or more members, or a first-tier race of exactly 2 lines on a short
\* track, and only with a gap of at most 10.0 between the top rider and the
\* strongest line partner (so never without a line partner); SUJI_LEAD is
\* selected only with a gap of at most 10.0 (elite) or 15.0 (other tiers).
C23_FixAndLeadValves ==
    Classified =>
        /\ locals.race_type = "suji_fix" =>
              /\ \/ Tier = "A3" /\ HasLineOf(df, 4)
                 \/ /\ Tier = "A" /\ Cardinality(RaceLines(df)) = 2
                    /\ ShortTrack
              /\ GapAtMost(100)
        /\ locals.race_type = "suji_lead" =>
              IF Tier = "S" THEN GapAtMost(100) ELSE GapAtMost(150)

\* C23: a first-tier race of two lines on a short track whose top rider is
\* within 10.0 of the line partner is SUJI_FIX
C23_Witness ==
    /\ Classified
    /\ locals.race_type = "suji_fix"
    /\ Tier = "A" /\ Cardinality(RaceLines(df)) = 2 /\ ShortTrack
    /\ GapAtMost(100)

\* C24: with neither SNIPE nor a star archetype selected, an elite race of
\* 4 or more lines, or an elite race whose top rider is more than 20.0 from
\* the strongest line partner, is LINE_BREAKER; a race of another tier never
\* is.
C24_BreakOverrides ==
    Classified =>
        /\ (/\ locals.race_type \notin {"snipe"} \cup StarArchetypes
            /\ Tier = "S"
            /\ Cardinality(RaceLines(df)) >= 4 \/ GapAbove(200))
              => locals.race_type = "line_breaker"
        /\ Tier # "S" => locals.race_type # "line_breaker"

\* C24: an elite race of four lines whose top rider is within 10.0 of the
\* line partner, so that LEAD would be valid, is LINE_BREAKER
C24_Witness ==
    /\ Classified
    /\ locals.race_type = "line_breaker"
    /\ Tier = "S"
    /\ Cardinality(RaceLines(df)) >= 4
    /\ GapAtMost(100)

----------------------------------------------------------------------------
(* Properties of the tickets written                                       *)

\* the k-th car by score of the frame the strategy ran on
Ranked(k) == CarAt(DfLogic(df), k)

\* the SNIPE trifecta with hole car h in first position
SnipeTicket(h) ==
    Ticket(TrifectaForm, <<<<CarStr(h)>>, JoinCars(<<Ranked(1), Ranked(2)>>),
                           JoinCars(<<Ranked(1), Ranked(2), Ranked(3)>>)>>, "-")

\* C25: the tickets of a SNIPE call hold the trifecta h - c1,c2 - c1,c2,c3
\* for an override car h other than the top-scored car c1, and every
\* trifecta among them is of that form.
C25_SnipeHoleFirst ==
    (Classified /\ locals.race_type = "snipe") =>
        /\ \E k \in DOMAIN locals.rec_tickets :
              TicketType(locals.rec_tickets[k]) = "3rentan"
        /\ \A k \in DOMAIN locals.rec_tickets :
              TicketType(locals.rec_tickets[k]) = "3rentan" =>
                 \E i \in DOMAIN ai_match :
                    /\ ai_match[i] # Ranked(1)
                    /\ locals.rec_tickets[k] = SnipeTicket(ai_match[i])

\* both directions of every pair of different entries, one from each of
\* the two groups of a ticket
BothWays(t_str) ==
    LET fwd == {pr \in GroupSet(t_str, 1) \X GroupSet(t_str, 2) : pr[1] # pr[2]}
    IN fwd \cup {<<pr[2], pr[1]>> : pr \in fwd}

FoldRowOk(t) ==
    (/\ t.type = "2shatan"
     /\ Separator(Body(t.t_str)) \in {"<->", "="}
     /\ Len(Parts(t.t_str)) = 2) =>
        /\ DistinctCombinations(t.t_str) = BothWays(t.t_str)
        /\ t.invest = StakeUnit * Cardinality(BothWays(t.t_str))

\* C26: an exacta ticket of two groups joined by the fold or the equality
\* separator expands to exactly the pairs (a, b) and (b, a), a from the
\* first group, b from the second, a and b different, and is staked 100 per
\* distinct pair.
C26_FoldExpansion ==
    (Analyzed /\ returned.raised = "none") =>
        \A k \in DOMAIN returned.df_tickets : FoldRowOk(returned.df_tickets[k])

----------------------------------------------------------------------------
(* Properties of the chunked reads                                         *)

\* the chunks the identifiers of the history are read in
ReadChunks == Chunks(RidsList(TargetRids(history_data)))

\* the positions of the chunks that hold identifier rid
ChunksOf(rid) ==
    {c \in DOMAIN ReadChunks : \E k \in DOMAIN ReadChunks[c] : ReadChunks[c][k] = rid}

\* every identifier of the history is in exactly one chunk, and no chunk
\* holds more than chunk_size of them
ChunksPartition ==
    /\ \A rid \in TargetRids(history_data) : Cardinality(ChunksOf(rid)) = 1
    /\ \A c \in DOMAIN ReadChunks :
          /\ Len(ReadChunks[c]) <= chunk_size
          /\ \A k \in DOMAIN ReadChunks[c] : ReadChunks[c][k] \in TargetRids(history_data)

WellFormed == \A i \in DOMAIN history_data : ~TicketsRaise(history_data[i])

\* C27: the identifiers of the history are read in chunks of at most
\* chunk_size, each identifier in exactly one chunk; and when the query of
\* a chunk fails the batch is still returned, with the races of the failed
\* chunks pending and the races of the other chunks settled as far as
\* their results allow.
C27_ChunkedReads ==
    /\ hpc # "idle" => ChunksPartition
    /\ (Analyzed /\ WellFormed /\ chunk_fails # {}) =>
          /\ returned.raised = "none"
          /\ \A k \in DOMAIN returned.df_res :
                LET row == returned.df_res[k]
                IN IF ChunksOf(RowRace(row)) \subseteq chunk_fails
                   THEN ~IsSettledRow(row)
                   ELSE IsSettledRow(row) <=>
                          /\ RowRace(row) \in DOMAIN race_result
                          /\ ~IsGirls(race_result[RowRace(row)])
                          /\ ~IsPending(RaceMap(history_data, race_result)[RowRace(row)])

----------------------------------------------------------------------------
(* Properties of the notation shared by generator and settlement           *)

SeparatorTokens == {"->", "<->", "=", "-"}

\* the position of the first separator of a ticket body (0 without one)
FirstSeparator(body) ==
    IF \E i \in DOMAIN body : body[i] \in SeparatorTokens
    THEN CHOOSE i \in DOMAIN body :
            /\ body[i] \in SeparatorTokens
            /\ \A j \in 1..(i - 1) : body[j] \notin SeparatorTokens
    ELSE 0

\* the groups of a ticket body, cut at every separator
RECURSIVE Positions(_)
Positions(body) ==
    IF FirstSeparator(body) = 0 THEN <<body>>
    ELSE <<SubSeq(body, 1, FirstSeparator(body) - 1)>>
         \o Positions(SubSeq(body, FirstSeparator(body) + 1, Len(body)))

\* the cars written at one position
PositionCars(group) ==
    {EntryCar(Split(group, ",")[k]) : k \in DOMAIN Split(group, ",")} \ {NoCar}

\* the tuples of pairwise different cars, one of each set of cars
Orders(cars) ==
    IF Len(cars) = 2
    THEN {pr \in cars[1] \X cars[2] : pr[1] # pr[2]}
    ELSE IF Len(cars) = 3
    THEN {tr \in cars[1] \X cars[2] \X cars[3] :
             tr[1] # tr[2] /\ tr[1] # tr[3] /\ tr[2] # tr[3]}
    ELSE {}

\* a tuple with its first two cars exchanged
Exchanged(o) == [i \in DOMAIN o |-> IF i = 1 THEN o[2] ELSE IF i = 2 THEN o[1] ELSE o[i]]

\* the ordered combinations a written ticket stands for: a box is every
\* order of its cars; otherwise one car of each position in the order
\* written, and both orders of the first two positions when they are
\* joined by the fold or the two-axis sign
Denoted(t_str) ==
    LET body == Body(t_str)
        cars == [n \in DOMAIN Positions(body) |-> PositionCars(Positions(body)[n])]
    IN IF HasTok(t_str, "(Box)")
       THEN Orders(<<cars[1], cars[1], cars[1]>>)
       ELSE IF body[FirstSeparator(body)] \in {"<->", "="}
       THEN Orders(cars) \cup {Exchanged(o) : o \in Orders(cars)}
       ELSE Orders(cars)

\* the cars placed first, in the number the kind of the ticket asks for
FinishOrder(rid, kind) ==
    IF kind = "2shatan" THEN <<PlacedCar(rid, 1), PlacedCar(rid, 2)>>
    ELSE <<PlacedCar(rid, 1), PlacedCar(rid, 2), PlacedCar(rid, 3)>>

GeneratedRowOk(t, rid) ==
    t.t_str \in GeneratedTickets =>
        /\ CarCombinations(t.t_str) # {}
        /\ CarCombinations(t.t_str) = Denoted(t.t_str)
        /\ t.invest = StakeUnit * Cardinality(Denoted(t.t_str))
        /\ (IF t.type = "2shatan" THEN HasTop2(rid) ELSE HasTop3(rid)) =>
              (t.is_hit = 1 <=> FinishOrder(rid, t.type) \in Denoted(t.t_str))

\* C28: every ticket the generator writes is settled on exactly the
\* ordered combinations its notation stands for: the set is not empty,
\* the stake is 100 per combination, and the ticket hits exactly when the
\* finish order is one of them.
C28_NotationAgrees ==
    (Analyzed /\ returned.raised = "none") =>
        \A r \in DOMAIN returned.df_res :
            \A k \in TicketsOf(r) :
                GeneratedRowOk(returned.df_tickets[k], RowRace(returned.df_res[r]))

----------------------------------------------------------------------------
(* Properties of the tickets of short fields                               *)

\* the entries written at the positions of a ticket
TicketEntries(t_str) ==
    UNION {{Split(Positions(Body(t_str))[n], ",")[k] :
               k \in DOMAIN Split(Positions(Body(t_str))[n], ",")} :
           n \in DOMAIN Positions(Body(t_str))}

RiderCars == {df.rows[i].car : i \in DOMAIN df.rows}

\* C29: for a scored table of three or more riders the strategy call does
\* not raise, whatever archetype it selects, and every entry of every
\* ticket it returns is the car number of a rider of the race.
C29_ShortFields ==
    (StrategyRan /\ Len(df.rows) >= 3 /\ {"ai_score", "base_score"} \subseteq df.cols) =>
        /\ raised = "none"
        /\ \A k \in DOMAIN strategy.tickets :
              \A e \in TicketEntries(strategy.tickets[k]) : EntryCar(e) \in RiderCars

----------------------------------------------------------------------------
(* Properties of the class tier                                            *)

\* C30: for the table a strategy call classified, the tier the scoring
\* engine derives from the riders' class labels is the tier the
\* classifier derives from them.
C30_SameTier ==
    Classified => ScoreRaceClass(df) = StrategyRaceClass(df)

====
